---- MODULE Spec2Model ----
(***************************************************************************)
(* Verification model of the market-data utilities:                        *)
(*   - the scraper's CSV classifier and symbol extraction                   *)
(*     (EnhancedTXODataScraper, FinancialDatabase),                         *)
(*   - the SQLAlchemy importer of txo_db_ui,                                *)
(*   - the open-interest aggregation of data_loader / txo_db_ui,            *)
(*   - the anomaly tiers of charting / txo_db_ui.                           *)
(*                                                                          *)
(* Text is modelled character by character: a text is a sequence of        *)
(* characters, an ASCII character is the one-character string itself and a *)
(* CJK character is written as an upper-case romanised tag (the table is   *)
(* in the comments next to each keyword).                                  *)
(***************************************************************************)
EXTENDS Integers, Sequences, FiniteSets, TLC

VARIABLES
    header_columns,   \* argument of _extract_symbol_from_header
    symbol_info,      \* its return value
    chunk_df,         \* argument of _process_data_chunk_fast
    classified,       \* what _process_data_chunk_fast decided and returned
    value,            \* a delta handed to the anomaly tier functions
    alert_level,      \* the tiers charting and txo_db_ui give it
    df_rows,          \* cleaned option rows handed to the aggregation
    agg,              \* the aggregated frames
    options_raw,      \* txo_db_ui database: committed rows of options_raw
    futures_raw,      \* txo_db_ui database: committed rows of futures_raw
    stocks_raw,       \* txo_db_ui database: committed rows of stocks_raw
    scraper_db,       \* FinancialDatabase: its three tables
    last,             \* outcome of the last import operation
    loader,           \* data_loader: the file handed to load_and_process and its outcome
    fetch,            \* one call of download_yfinance_data
    download_manager, \* AutoDownloadManager: is_downloading, total_tasks, completed_tasks
    threads,          \* the threads the download tool started
    batch_ui,         \* the download tool's widgets
    txo,              \* txo_downloader: one run of the daily download
    backtest,         \* BacktestEngine: one strategy over one price series
    plot,             \* txo_db_ui: the frame loaded and what draw_plots made of it
    picker            \* txo_downloader: one date picker

vars == <<header_columns, symbol_info, chunk_df, classified, value, alert_level,
          df_rows, agg, options_raw, futures_raw, stocks_raw, scraper_db,
          last, loader, fetch, download_manager, threads, batch_ui, txo, backtest,
          plot, picker>>

\* The variables of the CSV import, aggregation and anomaly parts, and those
\* of the loader, downloader and backtest parts
importVars == <<header_columns, symbol_info, chunk_df, classified, value,
                alert_level, df_rows, agg, options_raw, futures_raw,
                stocks_raw, scraper_db, last>>
toolVars == <<loader, fetch, download_manager, threads, batch_ui, txo, backtest,
              plot, picker>>

\* Python's None where a record is expected, and where a label is expected
None == [none |-> TRUE]
NoLabel == "None"
\* A part that has not run yet, and a part that a specification does not use
Pending == [pending |-> TRUE]
Idle == [idle |-> TRUE]

\* ------------------------------------------------------------------ text

Digits == {"0", "1", "2", "3", "4", "5", "6", "7", "8", "9"}
UpperCase == <<"A", "B", "C", "D", "E", "F", "G", "H", "I", "J", "K", "L", "M",
               "N", "O", "P", "Q", "R", "S", "T", "U", "V", "W", "X", "Y", "Z">>
LowerCase == <<"a", "b", "c", "d", "e", "f", "g", "h", "i", "j", "k", "l", "m",
               "n", "o", "p", "q", "r", "s", "t", "u", "v", "w", "x", "y", "z">>
Letters == {UpperCase[i] : i \in 1..26} \cup {LowerCase[i] : i \in 1..26}
Whitespace == {" "}
\* Every CJK character the model uses, by its tag (all in U+4E00..U+9FFF).
CJK == {"KAI", "PAN", "ZUI", "GAO", "DI", "SHOU", "CHENG", "JIAO", "LIANG",
        "JIN", "E", "RI", "QI", "DAI", "HAO", "MING", "CHENG2", "LV", "YUE",
        "JIA", "DAO", "JIE", "SUAN", "WEI", "PING", "CANG", "LIU", "BAO",
        "GAO2", "BIAO", "ZI", "LIAO", "TONG", "JI", "MING2", "XI", "NIAN",
        "DU", "YUE2", "FEN", "GONG", "SI", "GU", "PIAO", "ZHENG", "QUAN",
        "YI", "SHI", "CHANG", "HANG", "QING", "TOU", "MAI3", "MAI4",
        "QUAN2", "TAI", "JI2", "DIAN", "CHONG", "XIAO", "QI4", "KONG", "LAN",
        "WEI2", "BIE"}

\* str.lower() of one character
LowerChar(ch) ==
    IF \E i \in 1..26 : UpperCase[i] = ch
    THEN LowerCase[CHOOSE i \in 1..26 : UpperCase[i] = ch]
    ELSE ch

\* str.lower()
Lower(text) == [i \in 1..Len(text) |-> LowerChar(text[i])]

\* Python's  keyword in text  (substring test)
Contains(text, keyword) ==
    \E i \in 0..(Len(text) - Len(keyword)) :
        \A j \in 1..Len(keyword) : text[i + j] = keyword[j]

\* text.replace(ch, "")
RECURSIVE RemoveChar(_, _)
RemoveChar(text, ch) ==
    IF text = <<>> THEN <<>>
    ELSE IF Head(text) = ch THEN RemoveChar(Tail(text), ch)
    ELSE <<Head(text)>> \o RemoveChar(Tail(text), ch)

\* str.isdigit(): non-empty and every character a digit
IsDigit(text) == text # <<>> /\ \A i \in 1..Len(text) : text[i] \in Digits

\* length of the maximal run of characters of class cls starting at index p
RECURSIVE RunLen(_, _, _)
RunLen(text, p, cls) ==
    IF p > Len(text) \/ text[p] \notin cls THEN 0
    ELSE 1 + RunLen(text, p + 1, cls)

\* ------------------------------------------------- symbol extraction

\* Python's min() of a non-empty set of integers
Min(S) == CHOOSE x \in S : \A y \in S : x <= y

\* One attempt of the pattern
\*     (?:\s|^)(\d{3,6}[A-Za-z]*)\s+([CJK]+)
\* with group 1 starting at index p.  Every quantifier is greedy and each
\* class excludes the next one, so backtracking never finds a shorter split:
\* the digit run, the letter run, the whitespace run and the CJK run are all
\* taken whole, and a digit run longer than 6 fails.
SymbolPatternAt(text, p) ==
    LET d == RunLen(text, p, Digits)
        l == RunLen(text, p + d, Letters)
        w == RunLen(text, p + d + l, Whitespace)
        c == RunLen(text, p + d + l + w, CJK)
    IN  IF /\ (p = 1 \/ text[p - 1] \in Whitespace)
           /\ d >= 3 /\ d <= 6
           /\ w >= 1
           /\ c >= 1
        THEN [symbol |-> SubSeq(text, p, p + d + l - 1),
              chinese_name |-> SubSeq(text, p + d + l + w, p + d + l + w + c - 1)]
        ELSE None

\* re.search(pattern, col): the leftmost match, or None
PatternSearch(text) ==
    LET hits == {p \in 1..Len(text) : SymbolPatternAt(text, p) # None}
    IN  IF hits = {} THEN None ELSE SymbolPatternAt(text, Min(hits))

\* The lengths _is_valid_tw_stock_symbol accepts once the format is right
ValidSymbolLengthsBug == {3, 4, 5, 6}
ValidSymbolLengths == {4, 5, 6}

\* _is_valid_tw_stock_symbol
is_valid_tw_stock_symbol(symbol) ==
    IF Len(symbol) < 3 \/ Len(symbol) > 6 THEN FALSE
    ELSE
        LET d == RunLen(symbol, 1, Digits)
        IN  IF ~(d >= 1 /\ d + RunLen(symbol, d + 1, Letters) = Len(symbol))
            THEN FALSE
            ELSE Len(symbol) \in ValidSymbolLengths

\* The first column, scanning from index i, that is a string, matches the
\* pattern and carries a valid symbol
RECURSIVE ExtractFrom(_, _)
ExtractFrom(cols, i) ==
    IF i > Len(cols) THEN None
    ELSE
        LET m == IF cols[i].isstr THEN PatternSearch(cols[i].text) ELSE None
        IN  IF m # None /\ is_valid_tw_stock_symbol(m.symbol)
            THEN [symbol |-> m.symbol, chinese_name |-> m.chinese_name,
                  column_index |-> i - 1]
            ELSE ExtractFrom(cols, i + 1)

\* _extract_symbol_from_header
extract_symbol_from_header(cols) == ExtractFrom(cols, 1)

\* _extract_symbol_from_data applies the same pattern and validation to the
\* cells of a data row
extract_symbol_from_data(data_row) == ExtractFrom(data_row, 1)

\* _extract_symbol_from_skipped_rows
extract_symbol_from_skipped_rows(first_row, second_row) ==
    LET s == extract_symbol_from_header(first_row)
    IN  IF s # None THEN s ELSE extract_symbol_from_header(second_row)

\* ------------------------------------------------------- keyword texts
\* CJK tags: 開 KAI 盤 PAN 最 ZUI 高 GAO 低 DI 收 SHOU 成 CHENG 交 JIAO 量 LIANG
\* 金 JIN 額 E 日 RI 期 QI 代 DAI 號 HAO 名 MING 稱 CHENG2 履 LV 約 YUE 價 JIA
\* 到 DAO 結 JIE 算 SUAN 未 WEI 平 PING 倉 CANG 留 LIU 報 BAO 告 GAO2 表 BIAO
\* 資 ZI 料 LIAO 統 TONG 計 JI 明 MING2 細 XI 年 NIAN 度 DU 月 YUE2 份 FEN
\* 公 GONG 司 SI 股 GU 票 PIAO 證 ZHENG 券 QUAN 易 YI 市 SHI 場 CHANG 行 HANG
\* 情 QING 投 TOU 買 MAI3 賣 MAI4 權 QUAN2 台 TAI 積 JI2 電 DIAN

\* The keyword texts of _calculate_data_score and _process_data_chunk_fast
Text ==
    [open |-> <<"o", "p", "e", "n">>,
     high |-> <<"h", "i", "g", "h">>,
     low |-> <<"l", "o", "w">>,
     close |-> <<"c", "l", "o", "s", "e">>,
     volume |-> <<"v", "o", "l", "u", "m", "e">>,
     value |-> <<"v", "a", "l", "u", "e">>,
     date |-> <<"d", "a", "t", "e">>,
     symbol |-> <<"s", "y", "m", "b", "o", "l">>,
     name |-> <<"n", "a", "m", "e">>,
     cp |-> <<"c", "p">>,
     call |-> <<"c", "a", "l", "l">>,
     put |-> <<"p", "u", "t">>,
     callput |-> <<"c", "a", "l", "l", "/", "p", "u", "t">>,
     strike |-> <<"s", "t", "r", "i", "k", "e">>,
     expiry |-> <<"e", "x", "p", "i", "r", "y">>,
     settlement |-> <<"s", "e", "t", "t", "l", "e", "m", "e", "n", "t">>,
     oi |-> <<"o", "i">>,
     kaipan |-> <<"KAI", "PAN">>,   \* 開盤
     zuigao |-> <<"ZUI", "GAO">>,   \* 最高
     zuidi |-> <<"ZUI", "DI">>,   \* 最低
     shoupan |-> <<"SHOU", "PAN">>,   \* 收盤
     chengjiaoliang |-> <<"CHENG", "JIAO", "LIANG">>,   \* 成交量
     chengjiaojine |-> <<"CHENG", "JIAO", "JIN", "E">>,   \* 成交金額
     riqi |-> <<"RI", "QI">>,   \* 日期
     daihao |-> <<"DAI", "HAO">>,   \* 代號
     mingcheng |-> <<"MING", "CHENG2">>,   \* 名稱
     lvyuejia |-> <<"LV", "YUE", "JIA">>,   \* 履約價
     daoqi |-> <<"DAO", "QI">>,   \* 到期
     jiesuanjia |-> <<"JIE", "SUAN", "JIA">>,   \* 結算價
     weipingcang |-> <<"WEI", "PING", "CANG">>,   \* 未平倉
     liucang |-> <<"LIU", "CANG">>,   \* 留倉
     maimaiquan |-> <<"MAI3", "MAI4", "QUAN2">>,   \* 買賣權
     baogao |-> <<"BAO", "GAO2">>,   \* 報告
     baobiao |-> <<"BAO", "BIAO">>,   \* 報表
     ziliao |-> <<"ZI", "LIAO">>,   \* 資料
     tongji |-> <<"TONG", "JI">>,   \* 統計
     mingxi |-> <<"MING2", "XI">>,   \* 明細
     biao |-> <<"BIAO">>,   \* 表
     niandu |-> <<"NIAN", "DU">>,   \* 年度
     yuefen |-> <<"YUE2", "FEN">>,   \* 月份
     gongsi |-> <<"GONG", "SI">>,   \* 公司
     gupiao |-> <<"GU", "PIAO">>,   \* 股票
     zhengquan |-> <<"ZHENG", "QUAN">>,   \* 證券
     jiaoyi |-> <<"JIAO", "YI">>,   \* 交易
     shichang |-> <<"SHI", "CHANG">>,   \* 市場
     hangqing |-> <<"HANG", "QING">>,   \* 行情
     touzi |-> <<"TOU", "ZI">>]   \* 投資

\* _calculate_data_score: stock_keywords
stock_keywords ==
    {Text.open, Text.high, Text.low, Text.close, Text.volume, Text.value,
     Text.kaipan, Text.zuigao, Text.zuidi, Text.shoupan, Text.chengjiaoliang, Text.chengjiaojine,
     Text.riqi, Text.date, Text.daihao, Text.symbol, Text.mingcheng, Text.name}

\* _calculate_data_score: option_future_keywords
option_future_keywords ==
    {Text.cp, Text.call, Text.put, Text.strike, Text.lvyuejia, Text.expiry, Text.daoqi,
     Text.settlement, Text.jiesuanjia, Text.oi, Text.weipingcang, Text.liucang}

\* _calculate_data_score: non_column_keywords
non_column_keywords ==
    {Text.baogao, Text.baobiao, Text.ziliao, Text.tongji, Text.mingxi, Text.biao, Text.niandu,
     Text.yuefen, Text.gongsi, Text.gupiao, Text.zhengquan, Text.jiaoyi, Text.shichang,
     Text.hangqing, Text.touzi}

\* _process_data_chunk_fast: the three indicator sets
option_indicators ==
    {Text.cp, Text.callput, Text.maimaiquan, Text.strike, Text.lvyuejia, Text.expiry, Text.daoqi}
future_indicators ==
    {Text.settlement, Text.jiesuanjia, Text.oi, Text.weipingcang, Text.liucang}
stock_indicators ==
    {Text.open, Text.high, Text.low, Text.close, Text.volume, Text.value, Text.chengjiaojine,
     Text.kaipan, Text.zuigao, Text.zuidi, Text.shoupan, Text.chengjiaoliang}

\* ------------------------------------------------------------ cell values
\* A cell is [isstr, text]: text is the cell's str(), isstr tells whether the
\* cell is a Python str.

Str(text) == [isstr |-> TRUE, text |-> text]
Num(text) == [isstr |-> FALSE, text |-> text]

T_title == <<"2", "3", "3", "0", " ", "TAI", "JI2", "DIAN">>        \* 2330 台積電
T_daoqiyuefen == <<"DAO", "QI", "YUE2", "FEN">>                      \* 到期月份
T_Volume == <<"V", "o", "l", "u", "m", "e">>
T_unnamed == <<"U", "n", "n", "a", "m", "e", "d", ":", " ", "1">>    \* pandas' name of a blank header cell
T_17000 == <<"1", "7", "0", "0", "0">>

\* Column names a chunk may carry (pandas makes them distinct strings)
HeaderVocab ==
    <<Str(Text.lvyuejia), Str(Text.maimaiquan), Str(T_daoqiyuefen), Str(Text.oi),
      Str(Text.settlement), Str(Text.close), Str(T_Volume), Str(T_title),
      Str(T_unnamed)>>

\* Cells the first data row may carry
RowVocab ==
    <<Num(T_17000), Str(Text.close), Str(T_Volume), Str(T_title),
      Str(Text.lvyuejia), Str(Text.maimaiquan)>>

\* ---------------------------------------------------------- header score

\* Python's max(a, b)
Max(a, b) == IF a >= b THEN a ELSE b

\* What one column text adds to the score in _calculate_data_score
TextScore(text) ==
    LET stripped == RemoveChar(RemoveChar(RemoveChar(text, "."), ","), "-")
    IN  (IF \E k \in stock_keywords : Contains(text, k) THEN 2 ELSE 0)
      + (IF \E k \in option_future_keywords : Contains(text, k) THEN 2 ELSE 0)
      + (IF Len(text) <= 12 /\ ~\E k \in non_column_keywords : Contains(text, k)
         THEN 1 ELSE 0)
      - (IF Len(text) > 20 \/ IsDigit(stripped) THEN 1 ELSE 0)

\* TextScore(str(col).lower()) of every cell of the vocabularies, computed once
CellScore ==
    [c \in {HeaderVocab[i] : i \in 1..Len(HeaderVocab)} \cup
            {RowVocab[i] : i \in 1..Len(RowVocab)} |-> TextScore(Lower(c.text))]

RECURSIVE SumScores(_)
SumScores(columns) ==
    IF columns = <<>> THEN 0
    ELSE CellScore[Head(columns)] + SumScores(Tail(columns))

\* _calculate_data_score
calculate_data_score(columns) ==
    IF columns = <<>> THEN 0 ELSE Max(0, SumScores(columns))

\* ------------------------------------------------------- chunk classifier
\* A chunk_df is [columns |-> <<cell, ...>>, rows |-> <<row, ...>>]; a row is a
\* sequence of cells as long as columns; a cell is [isstr, text] with text
\* the cell's str().

\* set([str(col).lower() for col in row])
LowerSet(row) == {Lower(row[i].text) : i \in 1..Len(row)}

UseFirstRowStrict(score_first_row, score_second_row) ==
    score_first_row > score_second_row

\* Step 2's test: the column names are the header
UseFirstRow(score_first_row, score_second_row) ==
    score_first_row >= score_second_row

\* original_first_row: the first data row, if the chunk has one
OriginalFirstRow(chunk) ==
    IF Len(chunk.rows) > 0 THEN chunk.rows[1] ELSE <<>>

\* The second row scored whatever the first row's score
ScoreSecondRowAlways(score_first_row, original_first_row) ==
    IF original_first_row # <<>> THEN calculate_data_score(original_first_row) ELSE 0

\* Step 1: the second row is scored only when the first scores under 3
ScoreSecondRow(score_first_row, original_first_row) ==
    IF score_first_row < 3 /\ original_first_row # <<>>
    THEN calculate_data_score(original_first_row)
    ELSE 0

\* Step 2: the row taken as header, the column names and the data kept
DecideHeader(chunk, original_first_row, score_first_row, score_second_row) ==
    IF UseFirstRow(score_first_row, score_second_row)
    THEN [score_first_row |-> score_first_row,
          score_second_row |-> score_second_row,
          header |-> "first",
          column_names |-> LowerSet(chunk.columns),
          data_start_index |-> 0,
          symbol_info |-> None,
          chunk_df |-> chunk]
    ELSE [score_first_row |-> score_first_row,
          score_second_row |-> score_second_row,
          header |-> "second",
          column_names |-> LowerSet(original_first_row),
          data_start_index |-> 1,
          symbol_info |->
              extract_symbol_from_skipped_rows(chunk.columns, original_first_row),
          chunk_df |-> [chunk EXCEPT !.rows = Tail(chunk.rows)]]

ScoreRows(chunk, original_first_row, score_first_row) ==
    DecideHeader(chunk, original_first_row, score_first_row,
                 ScoreSecondRow(score_first_row, original_first_row))

\* The header decision of _process_data_chunk_fast (steps 1 and 2)
HeaderDecision(chunk) ==
    ScoreRows(chunk, OriginalFirstRow(chunk), calculate_data_score(chunk.columns))

\* _auto_detect_stock_symbol
auto_detect_stock_symbol(chunk) ==
    LET first_row_symbol == extract_symbol_from_header(chunk.columns)
    IN  IF first_row_symbol # None THEN first_row_symbol
        ELSE IF Len(chunk.rows) > 0
             THEN extract_symbol_from_data(chunk.rows[1])
             ELSE None

AskAlwaysStocks(choice) ==
    IF choice = "1" THEN "options"
    ELSE IF choice = "2" THEN "futures"
    ELSE "stocks"

\* _ask_user_for_data_type: the import the operator's answer selects
\* (choice is the string typed; "cancel" stands for the None of a cancelled dialog)
ask_user_for_data_type(choice) ==
    IF choice = "1" THEN "options"
    ELSE IF choice = "2" THEN "futures"
    ELSE IF choice = "3" THEN "stocks"
    ELSE "none"

RouteByScoreLoose(option_score, future_score, stock_score) ==
    IF option_score >= 2 THEN "options"
    ELSE IF future_score >= 2 THEN "futures"
    ELSE IF stock_score >= 2 THEN "stocks"
    ELSE "fallback"

\* Step 4's cascade over the three scores
RouteByScore(option_score, future_score, stock_score) ==
    IF option_score >= 2 THEN "options"
    ELSE IF future_score >= 2 /\ option_score = 0 THEN "futures"
    ELSE IF stock_score >= 2 /\ option_score = 0 /\ future_score = 0 THEN "stocks"
    ELSE "fallback"

\* The import routine a branch of step 4 returns: route is one of options,
\* futures, stocks, stocks_with_symbol, or ask when the operator is to be
\* asked; layer tells how it was reached: score, symbol (auto detection) or ask.
Via(route, layer, sym) == [route |-> route, layer |-> layer, symbol_info |-> sym]

\* The stocks branch with the symbol found in the header, if any
StocksVia(sym) ==
    IF sym # None THEN Via("stocks_with_symbol", "score", sym)
    ELSE Via("stocks", "score", None)

\* The last branch: the symbol auto detection found, or the operator's answer
FallbackVia(sym) ==
    IF sym # None THEN Via("stocks_with_symbol", "symbol", sym)
    ELSE Via("ask", "ask", None)

\* Step 4 of _process_data_chunk_fast over the header decision h
RouteOf(h, by_score) ==
    IF by_score = "options" THEN Via("options", "score", None)
    ELSE IF by_score = "futures" THEN Via("futures", "score", None)
    ELSE IF by_score = "stocks"
    THEN IF h.symbol_info # None
         THEN Via("stocks_with_symbol", "score", h.symbol_info)
         ELSE StocksVia(IF h.data_start_index = 0
                        THEN extract_symbol_from_header(h.chunk_df.columns)
                        ELSE None)
    ELSE FallbackVia(auto_detect_stock_symbol(h.chunk_df))

Classified(h, option_score, future_score, stock_score, via) ==
    [route |-> via.route,
     layer |-> via.layer,
     symbol_info |-> via.symbol_info,
     header |-> h.header,
     score_first_row |-> h.score_first_row,
     score_second_row |-> h.score_second_row,
     option_score |-> option_score,
     future_score |-> future_score,
     stock_score |-> stock_score,
     chunk_df |-> h.chunk_df]

ClassifyByScores(h, option_score, future_score, stock_score) ==
    Classified(h, option_score, future_score, stock_score,
               RouteOf(h, RouteByScore(option_score, future_score, stock_score)))

\* Step 3 of _process_data_chunk_fast: the three indicator scores
ClassifyHeader(h) ==
    ClassifyByScores(h,
                     Cardinality(h.column_names \cap option_indicators),
                     Cardinality(h.column_names \cap future_indicators),
                     Cardinality(h.column_names \cap stock_indicators))

\* Steps 1 to 4 of _process_data_chunk_fast: which import routine runs
Classify(chunk) == ClassifyHeader(HeaderDecision(chunk))

\* ---------------------------------------------------- FinancialDatabase
\* scraper_db is [options_raw, futures_raw, stocks_raw], each a set of rows;
\* a row carries its AUTOINCREMENT id, so two rows with equal natural keys
\* are two elements of the set.

Today == Str(<<"t", "o", "d", "a", "y">>)       \* datetime.now().strftime(...)
EmptyStr == Str(<<>>)
Zero == Num(<<"0">>)
NoneCell == Num(<<"N", "o", "n", "e">>)          \* Python None / SQL NULL

\* row.get(name, default): the cell under the column called name
RowGet(columns, row, name, default) ==
    IF \E i \in 1..Len(columns) : columns[i].text = name
    THEN row[Min({i \in 1..Len(columns) : columns[i].text = name})]
    ELSE default

\* UNIQUE(trade_date, product, expiry, strike, cp, session)
options_key(r) == <<r.trade_date, r.product, r.expiry, r.strike, r.cp, r.session>>
\* UNIQUE(trade_date, product, expiry, session)
futures_key(r) == <<r.trade_date, r.product, r.expiry, r.session>>
\* UNIQUE(trade_date, symbol)
stocks_key(r) == <<r.trade_date, r.symbol>>

TableKey(table, r) ==
    IF table = "options_raw" THEN options_key(r)
    ELSE IF table = "futures_raw" THEN futures_key(r)
    ELSE stocks_key(r)

\* The CHECK and NOT NULL constraints of the scraper's CREATE TABLE statements
ScraperConstraintsOk(table, r) ==
    /\ r.trade_date # NoneCell
    /\ table = "options_raw" =>
          /\ r.product # NoneCell /\ r.expiry # NoneCell /\ r.strike # NoneCell
          /\ r.cp \in {Str(<<"C">>), Str(<<"P">>)}
          /\ r.session \in {"regular", "after_hours"}
    /\ table = "futures_raw" =>
          /\ r.product # NoneCell /\ r.expiry # NoneCell
          /\ r.session \in {"regular", "after_hours"}
    /\ table = "stocks_raw" => r.symbol # NoneCell

\* r with the next AUTOINCREMENT id of the table
WithId(rows, r) ==
    [f \in DOMAIN r \cup {"id"} |-> IF f = "id" THEN Cardinality(rows) + 1 ELSE r[f]]

\* INSERT OR IGNORE of one row: a row that violates a UNIQUE, NOT NULL or
\* CHECK constraint is skipped, any other row is appended
InsertOrIgnore(table, rows, r) ==
    IF \/ ~ScraperConstraintsOk(table, r)
       \/ \E x \in rows : TableKey(table, x) = TableKey(table, r)
    THEN rows
    ELSE rows \cup {WithId(rows, r)}

\* cursor.executemany('INSERT OR IGNORE ...', data_tuples)
RECURSIVE ExecuteMany(_, _, _)
ExecuteMany(table, rows, data_tuples) ==
    IF data_tuples = <<>> THEN rows
    ELSE ExecuteMany(table, InsertOrIgnore(table, rows, Head(data_tuples)),
                     Tail(data_tuples))

\* cursor.execute("PRAGMA synchronous = OFF"): SQLite refuses to change the
\* safety level inside a transaction and raises sqlite3.OperationalError
\* ("Safety level may not be changed inside a transaction")
PragmaSynchronous(in_transaction) ==
    IF in_transaction THEN "OperationalError" ELSE "ok"

\* The body shared by batch_insert_options_fast, batch_insert_futures_fast
\* and batch_insert_stocks_fast: BEGIN TRANSACTION, the PRAGMAs, executemany,
\* commit; any exception is logged and 0 is returned, nothing committed.
BatchInsertFast(db, table, list) ==
    IF list = <<>> THEN [db |-> db, ret |-> 0, error |-> NoLabel]
    ELSE
        LET in_transaction == TRUE                     \* BEGIN TRANSACTION
            pragma == PragmaSynchronous(in_transaction)
        IN  IF pragma # "ok"
            THEN [db |-> db, ret |-> 0, error |-> pragma]
            ELSE LET rows == ExecuteMany(table, db[table], list)
                 IN  [db |-> [db EXCEPT ![table] = rows],
                      ret |-> Cardinality(rows) - Cardinality(db[table]),
                      error |-> NoLabel]

batch_insert_options_fast(db, options_list) ==
    BatchInsertFast(db, "options_raw", options_list)
batch_insert_futures_fast(db, futures_list) ==
    BatchInsertFast(db, "futures_raw", futures_list)
batch_insert_stocks_fast(db, stocks_list) ==
    BatchInsertFast(db, "stocks_raw", stocks_list)

\* _import_as_options: one dict per row of chunk_df
import_as_options(db, chunk) ==
    batch_insert_options_fast(db,
        [i \in 1..Len(chunk.rows) |->
            LET get(name, default) == RowGet(chunk.columns, chunk.rows[i], name, default)
            IN  [product |-> get(<<"p", "r", "o", "d", "u", "c", "t">>, Str(<<"T", "X", "O">>)),
                 trade_date |-> get(<<"t", "r", "a", "d", "e", "_", "d", "a", "t", "e">>, Today),
                 expiry |-> get(Text.expiry, EmptyStr),
                 strike |-> get(Text.strike, Zero),
                 cp |-> get(Text.cp, Str(<<"C">>)),
                 volume |-> get(Text.volume, Zero),
                 oi |-> get(Text.oi, NoneCell),
                 session |-> "regular"]])

\* _import_as_futures
import_as_futures(db, chunk) ==
    batch_insert_futures_fast(db,
        [i \in 1..Len(chunk.rows) |->
            LET get(name, default) == RowGet(chunk.columns, chunk.rows[i], name, default)
            IN  [product |-> get(<<"p", "r", "o", "d", "u", "c", "t">>, Str(<<"T", "X", "F">>)),
                 trade_date |-> get(<<"t", "r", "a", "d", "e", "_", "d", "a", "t", "e">>, Today),
                 expiry |-> get(Text.expiry, EmptyStr),
                 close |-> get(Text.close, NoneCell),
                 volume |-> get(Text.volume, Zero),
                 oi |-> get(Text.oi, Zero),
                 settlement |-> get(Text.settlement, NoneCell),
                 session |-> "regular"]])

\* _import_as_stocks (symbol from the row) and _import_as_stocks_with_symbol
\* (symbol and chinese_name from symbol_info)
ImportStocks(db, chunk, sym) ==
    batch_insert_stocks_fast(db,
        [i \in 1..Len(chunk.rows) |->
            LET get(name, default) == RowGet(chunk.columns, chunk.rows[i], name, default)
            IN  [symbol |-> IF sym = None THEN get(Text.symbol, EmptyStr)
                            ELSE Str(sym.symbol),
                 chinese_name |-> IF sym = None THEN NoneCell
                                  ELSE Str(sym.chinese_name),
                 trade_date |-> get(<<"t", "r", "a", "d", "e", "_", "d", "a", "t", "e">>, Today),
                 close |-> get(Text.close, NoneCell),
                 volume |-> get(Text.volume, Zero)]])

import_as_stocks(db, chunk) == ImportStocks(db, chunk, None)
import_as_stocks_with_symbol(db, chunk, sym) ==
    ImportStocks(db, chunk, sym)

\* The import a classification selects, and its count; the operator's answer
\* selects it when the classification is to ask.  The decision is returned
\* with the route taken: none when the answer selects no import.
ImportClassified(db, classification, choice) ==
    LET c == IF classification.route = "ask"
             THEN [classification EXCEPT !.route = ask_user_for_data_type(choice)]
             ELSE classification
        r == IF c.route = "options" THEN import_as_options(db, c.chunk_df)
             ELSE IF c.route = "futures" THEN import_as_futures(db, c.chunk_df)
             ELSE IF c.route = "stocks" THEN import_as_stocks(db, c.chunk_df)
             ELSE IF c.route = "stocks_with_symbol"
             THEN import_as_stocks_with_symbol(db, c.chunk_df, c.symbol_info)
             ELSE [db |-> db, ret |-> 0, error |-> NoLabel]
    IN  [db |-> r.db, ret |-> r.ret, error |-> r.error, decision |-> c]

\* _process_data_chunk_fast: classify the chunk, run the import the
\* classification selects, return its count
process_data_chunk_fast(db, chunk, choice) ==
    ImportClassified(db, Classify(chunk), choice)

\* -------------------------------------------------- txo_db_ui database
\* The tables of txo_db_ui are sets of rows; a row carries its id.  A row of a
\* cleaned frame (dfc) is a record
\*   [trade_date, contract, product, expiry, strike, cp, session, OI_val,
\*    volume_val, symbol]
\* where contract is the column 契約 and product a CSV column called product.
\* Dates and numbers are integers (the frames hold whole numbers, which int()
\* leaves as they are), NULL standing for NaN / None / SQL NULL;
\* the other fields are strings.  load_file and created_at are left out.
NULL == -1

\* UniqueConstraint uq_options_unique_row with the finer key of a table that
\* also told rows apart by their open interest
OptionRaw_uq_with_oi(r) ==
    <<r.trade_date, r.product, r.expiry, r.strike, r.cp, r.session, r.oi>>

\* UniqueConstraint uq_options_unique_row
OptionRaw_uq(r) == <<r.trade_date, r.product, r.expiry, r.strike, r.cp, r.session>>
\* UniqueConstraint uq_futures_unique_row
FutureRaw_uq(r) == <<r.trade_date, r.product, r.expiry, r.session>>
\* UniqueConstraint uq_stocks_unique_row
StockRaw_uq(r) == <<r.trade_date, r.symbol>>

OrmKey(table, r) ==
    IF table = "options_raw" THEN OptionRaw_uq(r)
    ELSE IF table = "futures_raw" THEN FutureRaw_uq(r)
    ELSE StockRaw_uq(r)

\* The nullable=False columns of the three classes; every one of them but
\* strike is always handed a str or a date
OrmNotNullOk(table, r) == table = "options_raw" => r.strike # NULL

InsertUnchecked(table, rows, r) ==
    [rows |-> rows \cup {WithId(rows, r)}, error |-> NoLabel]

InsertOrReplace(table, rows, r) ==
    LET kept == {x \in rows : OrmKey(table, x) # OrmKey(table, r)}
    IN  [rows |-> kept \cup {WithId(rows, r)}, error |-> NoLabel]

\* One INSERT of a flush: a NOT NULL or UNIQUE violation raises IntegrityError
InsertRow(table, rows, r) ==
    IF \/ ~OrmNotNullOk(table, r)
       \/ \E x \in rows : OrmKey(table, x) = OrmKey(table, r)
    THEN [rows |-> rows, error |-> "IntegrityError"]
    ELSE [rows |-> rows \cup {WithId(rows, r)}, error |-> NoLabel]

\* A SQLAlchemy session:
\*   db      the committed tables,
\*   tx      the tables as the open transaction sees them,
\*   pending the objects added and not yet flushed, <<table, row>> each,
\*   active  FALSE once a flush has failed and no rollback() was issued.
NewSession(db) == [db |-> db, tx |-> db, pending |-> <<>>, active |-> TRUE]

\* The INSERTs of the pending objects, in the order they were added
RECURSIVE FlushPending(_, _)
FlushPending(tx, pending) ==
    IF pending = <<>> THEN [tx |-> tx, error |-> NoLabel]
    ELSE
        LET Inserted(table, ins) ==
                IF ins.error # NoLabel THEN [tx |-> tx, error |-> ins.error]
                ELSE FlushPending([tx EXCEPT ![table] = ins.rows], Tail(pending))
        IN  Inserted(Head(pending)[1],
                     InsertRow(Head(pending)[1], tx[Head(pending)[1]],
                               Head(pending)[2]))

\* session.flush(): on a failed INSERT the transaction is rolled back, the
\* pending objects are expunged and the session stays inactive; an inactive
\* session refuses to work until rollback()
SessionFlush(s) ==
    IF ~s.active THEN [s |-> s, error |-> "PendingRollbackError"]
    ELSE
        LET Flushed(f) ==
                IF f.error # NoLabel
                THEN [s |-> [s EXCEPT !.tx = s.db, !.pending = <<>>, !.active = FALSE],
                      error |-> f.error]
                ELSE [s |-> [s EXCEPT !.tx = f.tx, !.pending = <<>>], error |-> NoLabel]
        IN  Flushed(FlushPending(s.tx, s.pending))

\* session.query(cls).filter_by(**key).first(): autoflush, then SELECT
SessionQueryFirst(s, table, filter_by) ==
    LET Select(f) ==
            [s |-> f.s, error |-> f.error,
             found |-> /\ f.error = NoLabel
                       /\ \E x \in f.s.tx[table] :
                             \A c \in DOMAIN filter_by : x[c] = filter_by[c]]
    IN  Select(SessionFlush(s))

\* session.add(row)
SessionAdd(s, table, r) == [s EXCEPT !.pending = Append(s.pending, <<table, r>>)]

\* session.commit()
SessionCommit(s) ==
    LET Committed(f) ==
            IF f.error # NoLabel THEN f
            ELSE [s |-> [f.s EXCEPT !.db = f.s.tx], error |-> NoLabel]
    IN  Committed(SessionFlush(s))

\* session.rollback()
SessionRollback(s) == [s EXCEPT !.tx = s.db, !.pending = <<>>, !.active = TRUE]

\* r.get("契約", "") or r.get("product", "") or ""
ProductOf(r) == IF r.contract # "" THEN r.contract ELSE r.product

\* The options branch of import_csv_file_to_db over the rows from index i on;
\* a query that raises is taken as "no such row"
RECURSIVE ImportOptionRows(_, _, _, _)
ImportOptionRows(s, rows, i, inserted) ==
    IF i > Len(rows) THEN [s |-> s, inserted |-> inserted, error |-> NoLabel]
    ELSE
        LET r == rows[i]
            Queried(q) ==
                LET obj_exists == q.error = NoLabel /\ q.found
                IN  IF obj_exists THEN ImportOptionRows(q.s, rows, i + 1, inserted)
                    ELSE ImportOptionRows(
                             SessionAdd(q.s, "options_raw",
                                 [product |-> ProductOf(r), trade_date |-> r.trade_date,
                                  expiry |-> r.expiry, strike |-> r.strike,
                                  cp |-> r.cp, volume |-> r.volume_val,
                                  oi |-> r.OI_val, session |-> r.session]),
                             rows, i + 1, inserted + 1)
        IN  Queried(SessionQueryFirst(s, "options_raw",
                        [trade_date |-> r.trade_date, product |-> r.contract,
                         expiry |-> r.expiry, strike |-> r.strike,
                         cp |-> r.cp, session |-> r.session]))

\* The stocks branch; a query that raises ends the import with its exception
RECURSIVE ImportStockRows(_, _, _, _)
ImportStockRows(s, rows, i, inserted) ==
    IF i > Len(rows) THEN [s |-> s, inserted |-> inserted, error |-> NoLabel]
    ELSE
        LET r == rows[i]
            Queried(q) ==
                IF q.error # NoLabel
                THEN [s |-> q.s, inserted |-> inserted, error |-> q.error]
                ELSE IF q.found THEN ImportStockRows(q.s, rows, i + 1, inserted)
                ELSE ImportStockRows(
                         SessionAdd(q.s, "stocks_raw",
                             [symbol |-> r.symbol, trade_date |-> r.trade_date,
                              volume |-> r.volume_val]),
                         rows, i + 1, inserted + 1)
        IN  Queried(SessionQueryFirst(s, "stocks_raw",
                        [trade_date |-> r.trade_date, symbol |-> r.symbol]))

\* The futures branch; a query that raises ends the import with its exception
RECURSIVE ImportFutureRows(_, _, _, _)
ImportFutureRows(s, rows, i, inserted) ==
    IF i > Len(rows) THEN [s |-> s, inserted |-> inserted, error |-> NoLabel]
    ELSE
        LET r == rows[i]
            Queried(q) ==
                IF q.error # NoLabel
                THEN [s |-> q.s, inserted |-> inserted, error |-> q.error]
                ELSE IF q.found THEN ImportFutureRows(q.s, rows, i + 1, inserted)
                ELSE ImportFutureRows(
                         SessionAdd(q.s, "futures_raw",
                             [product |-> r.contract, trade_date |-> r.trade_date,
                              expiry |-> r.expiry, volume |-> r.volume_val,
                              oi |-> r.OI_val, session |-> r.session]),
                         rows, i + 1, inserted + 1)
        IN  Queried(SessionQueryFirst(s, "futures_raw",
                        [trade_date |-> r.trade_date, product |-> r.contract,
                         expiry |-> r.expiry, session |-> r.session]))

\* import_csv_file_to_db(path, session, commit).  A file is
\* [is_option, is_stock, rows]: what lines 289-290 find in its columns, and
\* the rows of its cleaned frame.  The result is the session, the count
\* returned (ret) and the exception that left the function (error).
import_csv_file_to_db(file, s, commit) ==
    LET Committed(done, c) ==
            IF c.error = NoLabel
            THEN [s |-> c.s, ret |-> done.inserted, error |-> NoLabel]
            ELSE IF c.error = "IntegrityError"
            THEN [s |-> SessionRollback(c.s), ret |-> done.inserted,
                  error |-> NoLabel]
            ELSE [s |-> c.s, ret |-> NULL, error |-> c.error]
        Looped(done) ==
            IF done.error # NoLabel
            THEN [s |-> done.s, ret |-> NULL, error |-> done.error]
            ELSE IF commit /\ done.inserted > 0
            THEN Committed(done, SessionCommit(done.s))
            ELSE [s |-> done.s, ret |-> done.inserted, error |-> NoLabel]
    IN  Looped(IF file.is_option THEN ImportOptionRows(s, file.rows, 1, 0)
               ELSE IF file.is_stock THEN ImportStockRows(s, file.rows, 1, 0)
               ELSE ImportFutureRows(s, file.rows, 1, 0))

\* The loop of auto_import_from_data_dir over the files from index i on: one
\* session, commit=False, a file whose import raises is reported and skipped
RECURSIVE AutoImportFiles(_, _, _, _)
AutoImportFiles(s, files, i, total) ==
    IF i > Len(files) THEN [s |-> s, total |-> total]
    ELSE
        LET Imported(n) ==
                AutoImportFiles(n.s, files, i + 1,
                                IF n.error = NoLabel THEN total + n.ret ELSE total)
        IN  Imported(import_csv_file_to_db(files[i], s, FALSE))

\* auto_import_from_data_dir: the loop, then one commit, rolled back on
\* IntegrityError; any other exception of the commit leaves the function
auto_import_from_data_dir(db, files) ==
    LET Committed(done, c) ==
            IF c.error = NoLabel
            THEN [db |-> c.s.db, ret |-> done.total, error |-> NoLabel]
            ELSE IF c.error = "IntegrityError"
            THEN [db |-> SessionRollback(c.s).db, ret |-> done.total, error |-> NoLabel]
            ELSE [db |-> c.s.db, ret |-> NULL, error |-> c.error]
        Looped(done) == Committed(done, SessionCommit(done.s))
    IN  Looped(AutoImportFiles(NewSession(db), files, 1, 0))

\* on_import_single_file after the file was chosen and copied: a new session,
\* import_csv_file_to_db with commit=True; an exception is shown in a dialog
on_import_single_file(db, file) ==
    LET Imported(n) == [db |-> n.s.db, ret |-> n.ret, error |-> n.error]
    IN  Imported(import_csv_file_to_db(file, NewSession(db), TRUE))

\* ------------------------------------------------------ anomaly tiers

\* ANOM_THRESH of txo_db_ui: big_order (400, 800), major (800, 1200), extreme 1200
ANOM_THRESH ==
    [big_order |-> <<400, 800>>, major |-> <<800, 1200>>, extreme |-> 1200]

\* abs()
Abs(x) == IF x < 0 THEN -x ELSE x

detect_alert_level_strict(v) ==
    LET a == Abs(v)
    IN  IF a > 1200 THEN "extreme"
        ELSE IF a > 800 THEN "major_layout"
        ELSE IF a > 400 THEN "big_order"
        ELSE NoLabel

\* charting.detect_alert_level; v is an integer, so int(v) is v.
\* Labels: extreme "極端", major_layout "重大布局", big_order "大單".
detect_alert_level(v) ==
    LET a == Abs(v)
    IN  IF a >= 1200 THEN "extreme"
        ELSE IF a >= 800 THEN "major_layout"
        ELSE IF a >= 400 THEN "big_order"
        ELSE NoLabel

\* The level detect_anomalies_for_date gives a row from its delta_1.
\* Labels: extreme "極端", major "重大", big_order "大單".
anomaly_level(delta) ==
    LET absd == Abs(delta)
    IN  IF absd >= ANOM_THRESH.extreme THEN "extreme"
        ELSE IF absd >= ANOM_THRESH.major[1] THEN "major"
        ELSE IF absd >= ANOM_THRESH.big_order[1] THEN "big_order"
        ELSE NoLabel

\* ------------------------------------------------------- OI aggregation
\* A cleaned option row is [date, strike, cp, oi, session]; cp is "call" (買權)
\* or "put" (賣權), session "general" (一般) or "after_hours" (盤後).

\* Where a cp value sorts: 買權 before 賣權
CpOrder(cp) == IF cp = "call" THEN 0 ELSE 1

\* a < b for tuples of integers of one length, as tuples compare in a sort
RECURSIVE LexLess(_, _)
LexLess(a, b) ==
    IF a = <<>> THEN FALSE
    ELSE IF Head(a) # Head(b) THEN Head(a) < Head(b)
    ELSE LexLess(Tail(a), Tail(b))

RECURSIVE SumOI(_)
SumOI(rows) == IF rows = <<>> THEN 0 ELSE Head(rows).oi + SumOI(Tail(rows))

\* groupby([date, strike, cp], as_index=False).agg({"OI": "sum"}): one row per
\* key that occurs
GroupSum(rows) ==
    {[Date |-> k[1], Strike |-> k[2], CP |-> k[3],
      OI |-> LET same(r) == <<r.date, r.strike, r.cp>> = k
             IN  SumOI(SelectSeq(rows, same))] :
        k \in {<<rows[i].date, rows[i].strike, rows[i].cp>> : i \in 1..Len(rows)}}

\* The sort key of an aggregated row under a list of sort columns
SortKey(x, by) ==
    IF by = "Strike_CP_Date" THEN <<x.Strike, CpOrder(x.CP), x.Date>>
    ELSE <<x.Date, x.Strike, CpOrder(x.CP)>>

\* sort_values(by).reset_index(drop=True) of rows with distinct keys
RECURSIVE SortValues(_, _)
SortValues(S, by) ==
    IF S = {} THEN <<>>
    ELSE LET m == CHOOSE x \in S :
                      \A y \in S : y = x \/ LexLess(SortKey(x, by), SortKey(y, by))
         IN  <<m>> \o SortValues(S \ {m}, by)

UngroupedShift(frame, i, n) == IF i - n >= 1 THEN frame[i - n].OI ELSE 0

\* The shift with the row's own OI where the contract has no n-th row before
BackfilledShift(frame, i, n) ==
    LET before == {j \in 1..(i - 1) :
                      frame[j].Strike = frame[i].Strike /\ frame[j].CP = frame[i].CP}
    IN  IF Cardinality(before) < n THEN frame[i].OI
        ELSE frame[CHOOSE j \in before :
                       Cardinality({k \in before : k > j}) = n - 1].OI

\* frame.groupby([Strike, CP])["OI"].shift(n).fillna(0) at row i: the OI of
\* the n-th row before row i among the rows of the same (Strike, CP), 0
\* when there is none
GroupedShift(frame, i, n) ==
    LET before == {j \in 1..(i - 1) :
                      frame[j].Strike = frame[i].Strike /\ frame[j].CP = frame[i].CP}
    IN  IF Cardinality(before) < n THEN 0
        ELSE frame[CHOOSE j \in before :
                       Cardinality({k \in before : k > j}) = n - 1].OI

\* The four columns both tools add to the sorted frame
WithDeltas(frame) ==
    [i \in 1..Len(frame) |->
        LET prev1 == GroupedShift(frame, i, 1)
            prev2 == GroupedShift(frame, i, 2)
        IN  [Date |-> frame[i].Date, Strike |-> frame[i].Strike, CP |-> frame[i].CP,
             OI |-> frame[i].OI, OI_prev1 |-> prev1, OI_prev2 |-> prev2,
             delta_1 |-> frame[i].OI - prev1, delta_2 |-> frame[i].OI - prev2]]

\* data_loader.load_and_process from the cleaned frame df2 on: an empty
\* frame raises ValueError
load_and_process(rows) ==
    IF rows = <<>> THEN [error |-> "ValueError", agg |-> <<>>]
    ELSE [error |-> NoLabel,
          agg |-> WithDeltas(SortValues(GroupSum(rows), "Strike_CP_Date"))]

\* Every row, whatever its session
EverySession(rows) == rows

\* The rows aggregate_daily_from_df counts: those of the general session,
\* else those of no after-hours session, else all
SessionFilter(rows) ==
    LET is_general(r) == r.session = "general"
        not_after(r) == r.session \notin {"-", "after_hours", "late", ""}
        gen == SelectSeq(rows, is_general)
        other == SelectSeq(rows, not_after)
    IN  IF gen # <<>> THEN gen ELSE IF other # <<>> THEN other ELSE rows

\* txo_db_ui.aggregate_daily_from_df
aggregate_daily_from_df(rows) ==
    IF rows = <<>> THEN <<>>
    ELSE WithDeltas(SortValues(GroupSum(SessionFilter(rows)), "Date_Strike_CP"))

\* --------------------------------------------------------- input domains

MaxCellLen == 7        \* longest header cell of the symbol extraction check
MaxCols == 4           \* most columns of a chunk
MaxAbsDelta == 1300    \* largest |delta| handed to the tier functions

\* One character of each class the pattern tells apart
CellAlphabet == {"2", "A", " ", "TAI"}

\* Every text of at most n characters over the alphabet
CellTexts(n) == UNION {[1..k -> CellAlphabet] : k \in 0..n}

\* Phrases a title cell is made of: codes of 3, 4, 6 and 7 characters, a code
\* that starts with letters, and the two cells the specification names
T_AB_title == <<"A", "B", " ", "TAI", "JI2", "DIAN">>                \* AB 台積電
SymbolPhrases ==
    {<<"2", "2", "2", " ", "TAI">>, <<"2", "2", "2", "2", " ", "TAI">>,
     <<"2", "2", "2", "2", "2", "A", " ", "TAI", "JI2">>,
     <<"2", "2", "2", "2", "2", "2", "A", " ", "TAI">>,
     T_title, T_AB_title}
\* Cells of one phrase or of two phrases with a blank between them
PhraseCells ==
    SymbolPhrases \cup {a \o <<" ">> \o b : a \in SymbolPhrases, b \in SymbolPhrases}
\* Header lists of the symbol extraction check: one cell of any short text, or
\* two cells, each a phrase cell or a number
SymbolHeaders(n) ==
    {<<Str(t)>> : t \in CellTexts(n) \cup PhraseCells}
    \cup {<<a, b>> : a \in {Str(t) : t \in PhraseCells} \cup {Num(T_17000)},
                      b \in {Str(t) : t \in SymbolPhrases}}

\* Index sequences of length n over 1..k: strictly increasing (column names,
\* all different) or non-decreasing (row cells)
RECURSIVE IndexSeqs(_, _, _)
IndexSeqs(n, k, strict) ==
    IF n = 0 THEN {<<>>}
    ELSE {Append(x[1], x[2]) :
            x \in {y \in IndexSeqs(n - 1, k, strict) \X (1..k) :
                      \/ y[1] = <<>>
                      \/ IF strict THEN y[1][Len(y[1])] < y[2]
                                   ELSE y[1][Len(y[1])] <= y[2]}}

ColumnLists(w) ==
    {[i \in 1..w |-> HeaderVocab[q[i]]] : q \in IndexSeqs(w, Len(HeaderVocab), TRUE)}
\* Data rows: the first two cells range over the vocabulary, the others are
\* numbers
Rows(w) ==
    {[i \in 1..w |-> IF i <= 2 THEN RowVocab[q[i]] ELSE Num(T_17000)] :
        q \in [1..Min({w, 2}) -> 1..Len(RowVocab)]}
NumericRow(w) == [i \in 1..w |-> Num(T_17000)]
\* No data row, one data row, or one data row followed by a row of numbers
RowLists(w) ==
    {<<>>} \cup {<<r>> : r \in Rows(w)} \cup {<<r, NumericRow(w)>> : r \in Rows(w)}

\* Every chunk of at most n columns
Chunks(n) ==
    UNION {{[columns |-> c, rows |-> r] : c \in ColumnLists(w), r \in RowLists(w)} :
           w \in 1..n}

\* What the operator may answer in the type dialog: 1, 2, 3, something else,
\* or nothing (dialog cancelled)
Choices == {"1", "2", "3", "9", "cancel"}

EmptyDb == [options_raw |-> {}, futures_raw |-> {}, stocks_raw |-> {}]

MaxFileRows == 2       \* most rows of a CSV file handed to txo_db_ui
MaxDirFiles == 2       \* most CSV files in the Data folder at an auto import

\* Rows of cleaned frames.  cp "call" stands for 買權, session "general" for 一般.
OptionFrameRow(d, k, oi, contract, product) ==
    [trade_date |-> d, contract |-> contract, product |-> product,
     expiry |-> "202401", strike |-> k, cp |-> "call", session |-> "general",
     OI_val |-> oi, volume_val |-> NULL, symbol |-> ""]
FutureFrameRow(d, oi) ==
    [trade_date |-> d, contract |-> "TXF", product |-> "",
     expiry |-> "202401", strike |-> NULL, cp |-> "", session |-> "general",
     OI_val |-> oi, volume_val |-> NULL, symbol |-> ""]
StockFrameRow(d, volume) ==
    [trade_date |-> d, contract |-> "", product |-> "",
     expiry |-> "", strike |-> NULL, cp |-> "", session |-> "",
     OI_val |-> NULL, volume_val |-> volume, symbol |-> "2330"]

\* Option rows: a contract, the same contract with another open interest, the
\* contract a day later, a row whose strike did not parse, and a row whose
\* 契約 cell is blank while a product column names the product
OptionFrameRows ==
    {OptionFrameRow(1, 17000, 100, "TXO", ""), OptionFrameRow(1, 17000, 250, "TXO", ""),
     OptionFrameRow(2, 17000, 100, "TXO", ""), OptionFrameRow(1, NULL, 100, "TXO", ""),
     OptionFrameRow(1, 17000, 250, "", "TXO")}
FutureFrameRows == {FutureFrameRow(1, 100), FutureFrameRow(1, 250)}
StockFrameRows == {StockFrameRow(1, 1), StockFrameRow(1, 2)}

\* Every sequence of lo to hi elements of S
SeqsOf(S, lo, hi) == UNION {[1..k -> S] : k \in lo..hi}

\* CSV files of at most n rows, by what import_csv_file_to_db finds in them
CsvFiles(n) ==
    {[is_option |-> TRUE, is_stock |-> FALSE, rows |-> q] : q \in SeqsOf(OptionFrameRows, 0, n)}
    \cup {[is_option |-> FALSE, is_stock |-> TRUE, rows |-> q] : q \in SeqsOf(StockFrameRows, 1, n)}
    \cup {[is_option |-> FALSE, is_stock |-> FALSE, rows |-> q] : q \in SeqsOf(FutureFrameRows, 1, n)}

\* The files the operator may pick for a single import
PickableFiles == CsvFiles(MaxFileRows)

\* What the Data folder may hold at an auto import: up to n one-row files,
\* in the order os.listdir gives them
DataDirFiles ==
    {[is_option |-> TRUE, is_stock |-> FALSE, rows |-> <<r>>] :
        r \in {OptionFrameRow(1, 17000, 100, "TXO", ""),
               OptionFrameRow(1, NULL, 100, "TXO", ""),
               OptionFrameRow(1, 17000, 250, "", "TXO")}}
    \cup {[is_option |-> FALSE, is_stock |-> TRUE, rows |-> <<StockFrameRow(1, 1)>>],
          [is_option |-> FALSE, is_stock |-> FALSE, rows |-> <<FutureFrameRow(1, 100)>>]}
DataDirs(n) == SeqsOf(DataDirFiles, 0, n)
DataDirContents == DataDirs(MaxDirFiles)

\* CSV files handed to the scraper's import: one chunk with one row of numbers
ScraperFiles ==
    {[columns |-> c, rows |-> <<NumericRow(Len(c))>>] :
        c \in {<<Str(Text.lvyuejia), Str(Text.maimaiquan)>>, <<Str(Text.oi), Str(Text.settlement)>>,
               <<Str(Text.close), Str(T_Volume)>>, <<Str(T_title)>>}}

MaxDfRows == 3         \* most rows of a frame handed to the aggregation

\* Cleaned option rows: three contracts over three dates
DfRowValues ==
    {[date |-> d, strike |-> c[1], cp |-> c[2], oi |-> o, session |-> e] :
        d \in 1..3,
        c \in {<<17000, "call">>, <<17000, "put">>, <<17100, "call">>},
        o \in {100, 250},
        e \in {"general", "after_hours"}}

\* ------------------------------------------------- idle values of the parts

SymbolIdle == header_columns = <<>> /\ symbol_info = Idle
LoaderIdle == loader = Idle
FetchIdle == fetch = Idle
DownloadIdle == download_manager = Idle /\ threads = Idle /\ batch_ui = Idle
TxoIdle == txo = Idle
BacktestIdle == backtest = Idle
PlotIdle == plot = Idle
PickerIdle == picker = Idle
\* Every part but those named in S is unused, and stays as it is
ToolsIdleBut(S) ==
    /\ "loader" \in S \/ LoaderIdle
    /\ "fetch" \in S \/ FetchIdle
    /\ "download" \in S \/ DownloadIdle
    /\ "txo" \in S \/ TxoIdle
    /\ "backtest" \in S \/ BacktestIdle
    /\ "plot" \in S \/ PlotIdle
    /\ "picker" \in S \/ PickerIdle
ToolsFrozenBut(S) ==
    /\ IF "loader" \in S THEN TRUE ELSE UNCHANGED loader
    /\ IF "fetch" \in S THEN TRUE ELSE UNCHANGED fetch
    /\ IF "download" \in S THEN TRUE ELSE UNCHANGED <<download_manager, threads, batch_ui>>
    /\ IF "txo" \in S THEN TRUE ELSE UNCHANGED txo
    /\ IF "backtest" \in S THEN TRUE ELSE UNCHANGED backtest
    /\ IF "plot" \in S THEN TRUE ELSE UNCHANGED plot
    /\ IF "picker" \in S THEN TRUE ELSE UNCHANGED picker
ToolsIdle == ToolsIdleBut({})
ScraperIdle == chunk_df = None /\ classified = Idle /\ scraper_db = EmptyDb
AlertIdle == value = 0 /\ alert_level = Idle
AggIdle == df_rows = <<>> /\ agg = Idle
UiIdle ==
    /\ options_raw = {} /\ futures_raw = {} /\ stocks_raw = {}
    /\ last = None
ImportIdle == SymbolIdle /\ ScraperIdle /\ AlertIdle /\ AggIdle /\ UiIdle

\* ------------------------------------------ specification: SpecSymbol
\* _extract_symbol_from_header applied to one header cell

SymbolInit ==
    /\ header_columns \in SymbolHeaders(MaxCellLen)
    /\ symbol_info = Pending
    /\ chunk_df = None /\ classified = Idle /\ scraper_db = EmptyDb
    /\ AlertIdle /\ AggIdle /\ UiIdle
    /\ ToolsIdle

ExtractSymbol ==
    /\ symbol_info = Pending
    /\ symbol_info' = extract_symbol_from_header(header_columns)
    /\ UNCHANGED <<header_columns, chunk_df, classified, value, alert_level,
                   df_rows, agg, options_raw, futures_raw, stocks_raw,
                   scraper_db, last>>
    /\ UNCHANGED toolVars

SymbolNext == ExtractSymbol

SpecSymbol == SymbolInit /\ [][SymbolNext]_vars

\* ----------------------------------------- specification: SpecScraper
\* import_csv_to_database handing one chunk to _process_data_chunk_fast

ScraperInit ==
    /\ chunk_df \in Chunks(MaxCols)
    /\ classified = Pending
    /\ scraper_db = EmptyDb
    /\ SymbolIdle /\ AlertIdle /\ AggIdle /\ UiIdle
    /\ ToolsIdle

ProcessChunk ==
    /\ classified = Pending
    /\ \E c \in {Classify(chunk_df)}, choice \in Choices :
          LET r == ImportClassified(scraper_db, c, choice)
          IN  /\ scraper_db' = r.db
              /\ classified' = [import_count |-> r.ret,
                                error |-> r.error,
                                choice |-> IF r.decision.layer = "ask" THEN choice ELSE "unasked",
                                decision |-> r.decision]
    /\ UNCHANGED <<header_columns, symbol_info, chunk_df, value, alert_level,
                   df_rows, agg, options_raw, futures_raw, stocks_raw,
                   last>>
    /\ UNCHANGED toolVars

ScraperNext == ProcessChunk

SpecScraper == ScraperInit /\ [][ScraperNext]_vars

\* ------------------------------------------- specification: SpecAlert
\* the two tier functions applied to one delta

AlertInit ==
    /\ value \in (-MaxAbsDelta)..MaxAbsDelta
    /\ alert_level = Pending
    /\ SymbolIdle /\ ScraperIdle /\ AggIdle /\ UiIdle
    /\ ToolsIdle

DetectLevels ==
    /\ alert_level = Pending
    /\ alert_level' = [charting |-> detect_alert_level(value),
                       txo_db_ui |-> anomaly_level(value)]
    /\ UNCHANGED <<header_columns, symbol_info, chunk_df, classified, value,
                   df_rows, agg, options_raw, futures_raw, stocks_raw,
                   scraper_db, last>>
    /\ UNCHANGED toolVars

AlertNext == DetectLevels

SpecAlert == AlertInit /\ [][AlertNext]_vars

\* --------------------------------------------- specification: SpecAgg
\* The two aggregations applied to one frame of cleaned option rows

AggInit ==
    /\ df_rows \in SeqsOf(DfRowValues, 0, MaxDfRows)
    /\ agg = Pending
    /\ SymbolIdle /\ ScraperIdle /\ AlertIdle /\ UiIdle
    /\ ToolsIdle

Aggregate ==
    /\ agg = Pending
    /\ agg' = [data_loader |-> load_and_process(df_rows),
               txo_db_ui |-> aggregate_daily_from_df(df_rows)]
    /\ UNCHANGED <<header_columns, symbol_info, chunk_df, classified, value,
                   alert_level, df_rows, options_raw, futures_raw, stocks_raw,
                   scraper_db, last>>
    /\ UNCHANGED toolVars

AggNext == Aggregate

SpecAgg == AggInit /\ [][AggNext]_vars

\* ------------------------------------------------ specification: Spec
\* The import handlers of txo_db_ui and of the scraper working on their
\* databases.  last is [op, file, ret, error, again, committed]: the handler
\* that ran, the file it was given (not kept for an auto import), what it
\* returned (NULL when it was left by an exception), the exception it raised
\* or logged, whether the handler before it was the same one with the same
\* file, and by how many rows it made the tables grow.

UiDb == [options_raw |-> options_raw, futures_raw |-> futures_raw,
         stocks_raw |-> stocks_raw]

RowCount(db) ==
    Cardinality(db.options_raw) + Cardinality(db.futures_raw)
        + Cardinality(db.stocks_raw)

Again(op, file) == last # None /\ last.op = op /\ last.file = file

Init ==
    /\ options_raw = {} /\ futures_raw = {} /\ stocks_raw = {}
    /\ scraper_db = EmptyDb
    /\ last = None
    /\ chunk_df = None /\ classified = Idle
    /\ SymbolIdle /\ AlertIdle /\ AggIdle
    /\ ToolsIdle

\* txo_db_ui: the operator imports one CSV file
ImportSingleFile ==
    /\ \E file \in PickableFiles :
          \E r \in {on_import_single_file(UiDb, file)} :
              /\ options_raw' = r.db.options_raw
              /\ futures_raw' = r.db.futures_raw
              /\ stocks_raw' = r.db.stocks_raw
              /\ last' = [op |-> "on_import_single_file", file |-> file,
                          ret |-> r.ret, error |-> r.error,
                          again |-> Again("on_import_single_file", file),
                          committed |-> RowCount(r.db) - RowCount(UiDb)]
    /\ UNCHANGED <<header_columns, symbol_info, chunk_df, classified, value,
                   alert_level, df_rows, agg, scraper_db>>
    /\ UNCHANGED toolVars

\* txo_db_ui: the operator imports every CSV file of the Data folder
AutoImport ==
    /\ \E files \in DataDirContents :
          \E r \in {auto_import_from_data_dir(UiDb, files)} :
              /\ options_raw' = r.db.options_raw
              /\ futures_raw' = r.db.futures_raw
              /\ stocks_raw' = r.db.stocks_raw
              /\ last' = [op |-> "on_auto_import", file |-> None,
                          ret |-> r.ret, error |-> r.error,
                          again |-> FALSE,
                          committed |-> RowCount(r.db) - RowCount(UiDb)]
    /\ UNCHANGED <<header_columns, symbol_info, chunk_df, classified, value,
                   alert_level, df_rows, agg, scraper_db>>
    /\ UNCHANGED toolVars

\* scraper: the operator imports one CSV file, which is one chunk
ImportCsvToDatabase ==
    /\ \E file \in ScraperFiles, choice \in Choices :
          \E r \in {process_data_chunk_fast(scraper_db, file, choice)} :
              /\ scraper_db' = r.db
              /\ last' = [op |-> "import_csv_to_database", file |-> file,
                          ret |-> r.ret, error |-> r.error,
                          again |-> Again("import_csv_to_database", file),
                          committed |-> RowCount(r.db) - RowCount(scraper_db)]
    /\ UNCHANGED <<header_columns, symbol_info, chunk_df, classified, value,
                   alert_level, df_rows, agg, options_raw, futures_raw,
                   stocks_raw>>
    /\ UNCHANGED toolVars

Next == ImportSingleFile \/ AutoImport \/ ImportCsvToDatabase

Spec == Init /\ [][Next]_vars

\* ------------------------------------------------------------ data_loader
\* A file is [encoding, lines]: the encoding its bytes are written in and its
\* lines, each a text.  "TAB" stands for the tab character.

\* 交易日期, 履約, 買賣權, 未沖銷契約: JIAO YI RI QI, LV YUE, MAI3 MAI4 QUAN2,
\* WEI CHONG XIAO QI4 YUE; 空欄位 is KONG LAN WEI2
T_jiaoyiriqi == <<"JIAO", "YI", "RI", "QI">>
T_lvyue == <<"LV", "YUE">>
T_weichongxiaoqiyue == <<"WEI", "CHONG", "XIAO", "QI4", "YUE">>
T_konglanwei == <<"KONG", "LAN", "WEI2">>
T_quanbie == <<"QUAN2", "BIE">>                                  \* 權別
T_weichongxiao == <<"WEI", "CHONG", "XIAO">>                     \* 未沖銷

\* detect_encoding_guess: chardet's guess (cp950 when it has none), then the
\* fixed list, without repeats, compared in lower case
EncodingLower(e) == IF e = "Big5" THEN "big5" ELSE e

RECURSIVE DropRepeats(_, _)
DropRepeats(encs, seen) ==
    IF encs = <<>> THEN <<>>
    ELSE IF EncodingLower(Head(encs)) \in seen THEN DropRepeats(Tail(encs), seen)
    ELSE <<Head(encs)>> \o DropRepeats(Tail(encs), seen \cup {EncodingLower(Head(encs))})

detect_encoding_guess(guess) ==
    DropRepeats(<<IF guess = NoLabel THEN "cp950" ELSE guess,
                  "cp950", "big5", "utf-8-sig", "utf-8", "latin1">>, {})

\* The encodings that read the bytes of a file written in file_encoding as
\* the text it holds
Decodes(file_encoding, enc) ==
    IF file_encoding = "cp950" THEN EncodingLower(enc) \in {"cp950", "big5"}
    ELSE enc \in {"utf-8", "utf-8-sig"}

HasCJK(lines) == \E i \in 1..Len(lines) : \E j \in 1..Len(lines[i]) : lines[i][j] \in CJK

\* The text another encoding makes of a line: its ASCII characters stay, each
\* CJK character becomes a replacement character
Garbled(line) == [j \in 1..Len(line) |-> IF line[j] \in CJK THEN "?" ELSE line[j]]

DecodedLines(file, enc) ==
    IF Decodes(file.encoding, enc) THEN file.lines
    ELSE [i \in 1..Len(file.lines) |-> Garbled(file.lines[i])]

\* read_sample_lines(path, encoding, n=200), errors="replace"
SampleLines == 200
read_sample_lines(file, enc) ==
    SubSeq(DecodedLines(file, enc), 1, Min({Len(file.lines), SampleLines}))

\* "\n".join(sample) holds d
InSample(sample, d) ==
    \E i \in 1..Len(sample) : \E j \in 1..Len(sample[i]) : sample[i][j] = d

\* sniff_delimiters
sniff_delimiters(sample) ==
    LET cand == <<",", "TAB", ";", "|">>
        found == SelectSeq(cand, LAMBDA d : InSample(sample, d))
    IN  IF \E i \in 1..Len(found) : found[i] = "," THEN found
        ELSE Append(found, ",")

\* str.split(delimiter)
RECURSIVE Split(_, _)
Split(text, delimiter) ==
    IF \A j \in 1..Len(text) : text[j] # delimiter THEN <<text>>
    ELSE LET p == Min({j \in 1..Len(text) : text[j] = delimiter})
         IN  <<SubSeq(text, 1, p - 1)>> \o Split(SubSeq(text, p + 1, Len(text)), delimiter)

\* str.strip()
RECURSIVE Strip(_)
Strip(text) ==
    IF text = <<>> THEN text
    ELSE IF Head(text) \in Whitespace \cup {"TAB"} THEN Strip(Tail(text))
    ELSE IF text[Len(text)] \in Whitespace \cup {"TAB"}
    THEN Strip(SubSeq(text, 1, Len(text) - 1))
    ELSE text

\* find_header_row: the keywords and the number of lines looked at
HeaderKeywords == {T_jiaoyiriqi, T_lvyue, Text.maimaiquan}
HeaderScanLines == 10

HeaderLineAt(lines, delimiter, i) ==
    LET toks == Split(lines[i], delimiter)
    IN  \A k \in HeaderKeywords :
            \E t \in 1..Len(toks) : Contains(Strip(toks[t]), k)

FindHeaderRowZero(lines, delimiter) == 0

find_header_row(lines, delimiter) ==
    LET hits == {i \in 1..Min({Len(lines), HeaderScanLines}) :
                    HeaderLineAt(lines, delimiter, i)}
    IN  IF hits = {} THEN 0 ELSE Min(hits) - 1

\* ",".join(columns)
RECURSIVE Join(_, _)
Join(texts, sep) ==
    IF texts = <<>> THEN <<>>
    ELSE IF Len(texts) = 1 THEN texts[1]
    ELSE texts[1] \o <<sep>> \o Join(Tail(texts), sep)

\* A line pandas skips (skip_blank_lines): one field, empty or blank
IsBlankLine(line, delim) == Len(Split(line, delim)) = 1 /\ Strip(line) = <<>>

\* pd.read_csv(path, encoding=enc, delimiter=delim, header=header_row,
\* engine="python", dtype=str, keep_default_na=False).  Blank lines are
\* skipped before the header row is counted.  pandas raises when the bytes
\* do not decode (latin1 always decodes), when the file has no line at
\* header_row, and it may raise when a row has more fields than the header
\* (otherwise it takes the extra leading fields as the index).  A row with
\* fewer fields than the header has nan in the missing cells.
\* oracle is [decode_raises, ragged_raises]: what pandas does where it may do either.
ReadCsv(file, enc, delim, header_row, oracle) ==
    LET lines == SelectSeq(DecodedLines(file, enc), LAMBDA ln : ~IsBlankLine(ln, delim))
        rows == [i \in 1..(Len(lines) - header_row - 1) |->
                    Split(lines[header_row + 1 + i], delim)]
    IN  IF /\ ~Decodes(file.encoding, enc) /\ HasCJK(file.lines)
           /\ enc # "latin1" /\ oracle.decode_raises
        THEN [error |-> "pandas_read_error"]
        ELSE IF header_row >= Len(lines) THEN [error |-> "pandas_read_error"]
        ELSE IF /\ oracle.ragged_raises
                /\ \E i \in 1..Len(rows) :
                      Len(rows[i]) > Len(Split(lines[header_row + 1], delim))
        THEN [error |-> "pandas_read_error"]
        ELSE [error |-> NoLabel,
              columns |-> Split(lines[header_row + 1], delim),
              rows |-> rows]

\* df[c].astype(str).str.strip() of the cell of row under column j
CellText(row, j) == IF j <= Len(row) THEN Strip(row[j]) ELSE <<"n", "a", "n">>

\* Lines 102-108 of attempt_read: the columns whose cells are all blank are
\* dropped, the names are stripped and a blank name becomes 空欄位
NormalizedColumns(df) ==
    LET kept == SelectSeq([j \in 1..Len(df.columns) |-> j],
                    LAMBDA j : \E i \in 1..Len(df.rows) : CellText(df.rows[i], j) # <<>>)
    IN  [k \in 1..Len(kept) |->
            IF Strip(df.columns[kept[k]]) # <<>> THEN Strip(df.columns[kept[k]])
            ELSE T_konglanwei]

\* The plausibility test of attempt_read over the normalized columns
PlausibleKeywords == {T_jiaoyiriqi, T_lvyue, Text.maimaiquan, T_weichongxiaoqiyue}
Plausible(columns, nrows) ==
    /\ nrows > 0 /\ columns # <<>>                            \* not df.empty
    /\ \E k \in PlausibleKeywords : Contains(Join(columns, ","), k)

\* One (encoding, delimiter) combination of attempt_read: the header row it
\* chooses and what reading with it gives
Attempt(file, enc, delim, sample, oracle) ==
    LET AttemptWith(header_row, df) ==
            [enc |-> enc, delim |-> delim, header_row |-> header_row,
             sample_lines |-> Len(sample),
             outcome |-> IF df.error # NoLabel THEN df.error
                         ELSE IF Plausible(NormalizedColumns(df), Len(df.rows))
                         THEN "returned" ELSE "implausible",
             columns |-> IF df.error # NoLabel THEN <<>> ELSE NormalizedColumns(df),
             nrows |-> IF df.error # NoLabel THEN 0 ELSE Len(df.rows)]
        ChooseHeader(header_row) ==
            AttemptWith(header_row, ReadCsv(file, enc, delim, header_row, oracle))
    IN  ChooseHeader(find_header_row(sample, delim))

DiagnosticsOfErrors(a) ==
    IF a.outcome = "pandas_read_error"
    THEN <<[enc |-> a.enc, delim |-> a.delim, header_row |-> a.header_row,
            note |-> "pandas_read_error", n |-> 0]>>
    ELSE <<>>

\* The entries attempt_read appends to diagnostics for one attempt
DiagnosticsOf(a) ==
    <<[enc |-> a.enc, delim |-> a.delim, header_row |-> a.header_row,
       note |-> "sample_lines", n |-> a.sample_lines]>>
    \o (IF a.outcome = "pandas_read_error"
        THEN <<[enc |-> a.enc, delim |-> a.delim, header_row |-> a.header_row,
                note |-> "pandas_read_error", n |-> 0]>>
        ELSE <<>>)

\* The loops of attempt_read from encoding e and delimiter d on; attempts is
\* every combination tried so far with what came of it
RECURSIVE AttemptFrom(_, _, _, _, _, _, _)
AttemptFrom(file, encs, e, d, diagnostics, attempts, oracle) ==
    IF e > Len(encs)
    THEN [df |-> None,
          info |-> [diagnostics |-> diagnostics,
                    sample |-> SubSeq(read_sample_lines(file, encs[Len(encs)]), 1,
                                      Min({50, Len(file.lines)}))],
          attempts |-> attempts]
    ELSE
        LET Tried(delims, sample) ==
                IF d > Len(delims)
                THEN AttemptFrom(file, encs, e + 1, 1, diagnostics, attempts, oracle)
                ELSE LET Done(a) ==
                             IF a.outcome = "returned"
                             THEN [df |-> [columns |-> a.columns, nrows |-> a.nrows],
                                   info |-> [encoding |-> a.enc, delimiter |-> a.delim,
                                             header_row |-> a.header_row],
                                   attempts |-> Append(attempts, a)]
                             ELSE AttemptFrom(file, encs, e, d + 1,
                                              diagnostics \o DiagnosticsOf(a),
                                              Append(attempts, a), oracle)
                     IN  Done(Attempt(file, encs[e], delims[d], sample, oracle))
            Sampled(sample) == Tried(sniff_delimiters(sample), sample)
        IN  Sampled(read_sample_lines(file, encs[e]))

\* attempt_read(path)
attempt_read(file, guess, oracle) ==
    AttemptFrom(file, detect_encoding_guess(guess), 1, 1, <<>>, <<>>, oracle)

\* diagnostic_report(path, info): what it prints
diagnostic_report(info) ==
    IF "encoding" \in DOMAIN info
    THEN [successful |-> TRUE, combos |-> <<>>, raw_sample |-> <<>>]
    ELSE [successful |-> FALSE,
          combos |-> IF "diagnostics" \in DOMAIN info THEN info.diagnostics ELSE <<>>,
          raw_sample |-> IF "sample" \in DOMAIN info THEN info.sample ELSE <<>>]

\* match_column(df, candidates): is there a column holding a candidate
match_column(columns, candidates) ==
    \E c \in 1..Len(columns) :
        \E k \in candidates : Contains(RemoveChar(columns[c], " "), k)

\* Steps 1 to 3 of load_and_process: the read, the report and the error on
\* total failure, the column matching
LoadFile(file, guess, oracle) ==
    LET Read(r) ==
            IF r.df = None
            THEN [error |-> "ValueError", report |-> diagnostic_report(r.info),
                  df |-> None, info |-> r.info, attempts |-> r.attempts]
            ELSE IF ~(/\ match_column(r.df.columns, {T_jiaoyiriqi, Text.riqi})
                      /\ match_column(r.df.columns, {Text.maimaiquan, T_quanbie})
                      /\ match_column(r.df.columns, {Text.lvyuejia, T_lvyue})
                      /\ match_column(r.df.columns,
                             {T_weichongxiaoqiyue, Text.weipingcang, <<"O", "I">>,
                              T_weichongxiao}))
            THEN [error |-> "ValueError",
                  report |-> diagnostic_report([diagnostics |-> <<>>, sample |-> <<>>]),
                  df |-> None, info |-> r.info, attempts |-> r.attempts]
            ELSE [error |-> NoLabel, report |-> None,
                  df |-> r.df, info |-> r.info, attempts |-> r.attempts]
    IN  Read(attempt_read(file, guess, oracle))

\* ---------------------------------------------------- loader input domain
MaxBodyLines == 3

L_title == <<"T", "X", "O">>
L_title_cjk == <<"BAO", "BIAO", ",", "2">>                       \* 報表,2
L_header ==
    T_jiaoyiriqi \o <<",">> \o Text.lvyuejia \o <<",">> \o Text.maimaiquan
        \o <<",">> \o T_weichongxiaoqiyue
L_header_tab ==
    T_jiaoyiriqi \o <<"TAB">> \o Text.lvyuejia \o <<"TAB", " ">> \o Text.maimaiquan
        \o <<"TAB">> \o <<"O", "I">>
L_partial == T_jiaoyiriqi \o <<",">> \o Text.lvyuejia
L_data == <<"1", ",", "2", ",", "C", ",", "5">>
L_data_long == <<"1", ",", "2", ",", "C", ",", "5", ",", "9">>
L_blank == <<>>

LineVocab == {L_title, L_title_cjk, L_header, L_header_tab, L_partial, L_data,
              L_data_long, L_blank}

\* Files: at most n lines of the vocabulary, or title lines (one short of
\* the lines find_header_row looks at, or that many) and then fewer than n
\* lines of the vocabulary
LoaderFiles(n) ==
    {[encoding |-> e, lines |-> body] :
        e \in {"cp950", "utf-8"}, body \in SeqsOf(LineVocab, 0, n)}
    \cup
    {[encoding |-> e, lines |-> [i \in 1..k |-> L_title] \o body] :
        e \in {"cp950", "utf-8"},
        k \in {HeaderScanLines - 1, HeaderScanLines},
        body \in SeqsOf(LineVocab, 0, n - 1)}

\* What chardet.detect may answer: nothing, or an encoding name
ChardetGuesses == {NoLabel, "utf-8", "Big5"}

Oracles == [decode_raises : BOOLEAN, ragged_raises : BOOLEAN]

\* ------------------------------------------ specification: SpecLoader
\* load_and_process reading one file

LoaderInit ==
    /\ loader \in {[file |-> f, guess |-> g, result |-> Pending] :
                      f \in LoaderFiles(MaxBodyLines), g \in ChardetGuesses}
    /\ ImportIdle
    /\ ToolsIdleBut({"loader"})

LoadAndProcess ==
    /\ loader.result = Pending
    /\ \E oracle \in Oracles :
          \E r \in {LoadFile(loader.file, loader.guess, oracle)} :
              loader' = [loader EXCEPT !.result = r]
    /\ UNCHANGED importVars
    /\ ToolsFrozenBut({"loader"})

LoaderNext == LoadAndProcess

SpecLoader == LoaderInit /\ [][LoaderNext]_vars

\* ===================================================================
\* AutoDownloadManager of the download tool
\* ===================================================================

\* intervals_config: the time frames in the order the tool goes through them
intervals_config ==
    << [interval |-> "1d",  period |-> "max"],
       [interval |-> "1h",  period |-> "2y"],
       [interval |-> "30m", period |-> "60d"],
       [interval |-> "15m", period |-> "60d"],
       [interval |-> "5m",  period |-> "60d"],
       [interval |-> "1m",  period |-> "7d"] >>

max_retries == 3

\* A wait that does not grow with the attempt
FixedSeconds(attempt) == 2

\* time.sleep(2 ** attempt)
BackoffSeconds(attempt) == 2 ^ attempt

\* What ticker.history does at one attempt: it gives rows ("data"), it gives
\* None, an empty frame or only NaN closes ("empty"), or it raises ("raises")
HistoryOutcomes == {"data", "empty", "raises"}

\* The loop of download_yfinance_data from one attempt on; outcomes[n] is what
\* ticker.history does at the n-th call
RECURSIVE RetryFrom(_, _, _)
RetryFrom(outcomes, attempt, slept) ==
    IF attempt >= max_retries
    THEN [result |-> NoLabel, attempts |-> attempt, slept |-> slept]
    ELSE IF outcomes[attempt + 1] = "data"
    THEN [result |-> "data", attempts |-> attempt + 1, slept |-> slept]
    ELSE IF outcomes[attempt + 1] = "empty"
    THEN [result |-> NoLabel, attempts |-> attempt + 1, slept |-> slept]
    ELSE IF attempt = max_retries - 1
    THEN [result |-> NoLabel, attempts |-> attempt + 1, slept |-> slept]
    ELSE RetryFrom(outcomes, attempt + 1, Append(slept, BackoffSeconds(attempt)))

download_yfinance_data(outcomes) == RetryFrom(outcomes, 0, <<>>)

\* What the network may do over the attempts of one fetch
FetchOutcomes == [1..max_retries -> HistoryOutcomes]

StockIds == { <<"2", "3", "3", "0">>, <<"N", "a", "N">> }

\* ------------------------------------------- specification: SpecFetch
\* download_yfinance_data fetching one symbol and interval

FetchInit ==
    /\ fetch \in {[symbol |-> s, config |-> intervals_config[k], outcomes |-> o,
                   returned |-> Pending] :
                     s \in StockIds, k \in 1..Len(intervals_config), o \in FetchOutcomes}
    /\ ImportIdle
    /\ ToolsIdleBut({"fetch"})

DownloadYfinanceData ==
    /\ fetch.returned = Pending
    /\ fetch' = [fetch EXCEPT !.returned = download_yfinance_data(fetch.outcomes)]
    /\ UNCHANGED importVars
    /\ ToolsFrozenBut({"fetch"})

FetchNext == DownloadYfinanceData

SpecFetch == FetchInit /\ [][FetchNext]_vars

\* ------------------------------------------------ batch and smart download

MaxStocks == 2       \* most symbols selected for one batch download
MaxThreads == 2      \* most download threads started in one run of the tool

T_TW == <<".", "T", "W">>
T_TWO == <<".", "T", "W", "O">>

\* text.endswith(suffix)
EndsWith(text, suffix) ==
    /\ Len(text) >= Len(suffix)
    /\ SubSeq(text, Len(text) - Len(suffix) + 1, Len(text)) = suffix

\* text.replace(old, '')
RECURSIVE RemoveText(_, _)
RemoveText(text, old) ==
    IF Len(text) < Len(old) THEN text
    ELSE IF SubSeq(text, 1, Len(old)) = old
    THEN RemoveText(SubSeq(text, Len(old) + 1, Len(text)), old)
    ELSE <<text[1]>> \o RemoveText(Tail(text), old)

invalid_patterns ==
    { <<>>, <<" ">>, <<"N", "/", "A">>, <<"N", "a", "N">>, <<"N", "o", "n", "e">> }

is_valid_stock_id(stock_id) ==
    IF stock_id = <<>> \/ stock_id \in invalid_patterns THEN FALSE
    ELSE IF EndsWith(stock_id, T_TW) \/ EndsWith(stock_id, T_TWO)
    THEN IsDigit(RemoveText(RemoveText(stock_id, T_TW), T_TWO))
    ELSE TRUE

\* check_data_completeness: needs_download, from what the database holds of
\* the symbol and interval.  A thread asks once for each symbol and interval;
\* what it finds is what the database held when the run began.
check_data_completeness(manager, symbol, interval) ==
    <<symbol, interval>> \notin manager.complete

\* What a fetch of download_yfinance_data may come back with
FetchResults == {download_yfinance_data(o).result : o \in FetchOutcomes}

\* What the rest of one interval's download may do: is_data_complete,
\* the rows save_stock_data_to_db inserted, and whether a database call raised
FetchOracles ==
    [data : FetchResults, is_data_complete : BOOLEAN, saved_count : 0..1,
     raises : BOOLEAN]

\* A thread the tool starts: download_thread of batch_download_stocks /
\* batch_download_derivatives ("batch") or of smart_download ("smart")
NewThread(kind, list, all) ==
    [kind |-> kind, list |-> list, all |-> all,
     pc |-> IF kind = "batch" THEN "symbol" ELSE "begin",
     i |-> 0, k |-> 0,
     success_count |-> 0, fail_count |-> 0, skip_count |-> 0, total_success |-> 0,
     stopped |-> FALSE,     \* stop_download was called while the thread was alive
     late |-> FALSE,        \* it went on to a symbol or an interval after that
     visited |-> <<>>,      \* the intervals of the current symbol it dealt with
     status |-> NoLabel,    \* the status it last handed to its callback
     completions |-> 0]     \* calls of completion_callback

Alive(th) == th.pc # "dead"

\* A widget or Tk variable is written by the thread that runs the code
WidgetWrite(ui, thread) == [ui EXCEPT !.writers = @ \cup {thread}]

\* progress_callback of start_batch_download
progress_callback(w, progress) ==
    [w EXCEPT !.ui = WidgetWrite([@ EXCEPT !.batch_progress = progress], "worker")]

\* progress_callback of smart_download
smart_progress_callback(w, status) ==
    [w EXCEPT !.ui = WidgetWrite([@ EXCEPT !.progress =
                                      IF status = "success" THEN 100
                                      ELSE IF status = "progress" THEN 50 ELSE 0],
                                 "worker")]

Counted(th, status) ==
    IF status = "success" THEN [th EXCEPT !.success_count = @ + 1]
    ELSE IF status = "skip" THEN [th EXCEPT !.skip_count = @ + 1]
    ELSE IF status \in {"failed", "error"} THEN [th EXCEPT !.fail_count = @ + 1]
    ELSE th

\* (completed_tasks / total_tasks) * 100, rounded down
Percent(done, total) == (done * 100) \div total

\* task_callback of download_thread; a smart download hands its own callback
task_callback(w, status) ==
    IF w.th.kind = "batch"
    THEN progress_callback(
             [w EXCEPT !.manager.completed_tasks = @ + 1,
                       !.th = [Counted(@, status) EXCEPT !.status = status]],
             Percent(w.manager.completed_tasks + 1, w.manager.total_tasks))
    ELSE smart_progress_callback([w EXCEPT !.th.status = status], status)

\* completion_callback of start_batch_download
completion_callback(w) ==
    [w EXCEPT !.ui = WidgetWrite([@ EXCEPT !.batch_progress = 100,
                                           !.start_batch_btn = "normal",
                                           !.stop_batch_btn = "disabled"], "worker"),
              !.th.completions = @ + 1]

\* What the thread does when smart_download_stock_data has returned
Returned(w) ==
    IF w.th.kind = "batch"
    THEN [progress_callback(w, Percent(w.th.i + 1, Len(w.th.list)))
             EXCEPT !.th.i = @ + 1, !.th.pc = "symbol"]
    ELSE [w EXCEPT !.ui = WidgetWrite(@, "worker"), !.th.pc = "dead"]

\* smart_download_stock_data up to its first interval
smart_download_stock_data(w, stock_id) ==
    IF ~is_valid_stock_id(stock_id) THEN Returned(task_callback(w, "skip"))
    ELSE IF w.th.all
    THEN [w EXCEPT !.th.pc = "interval", !.th.k = 0, !.th.total_success = 0,
                   !.th.visited = <<>>]
    ELSE [w EXCEPT !.th.pc = "single", !.th.visited = <<>>]

\* The end of download_thread: the flag is cleared, the completion is told
ThreadEnd(w) ==
    [completion_callback([w EXCEPT !.manager.is_downloading = FALSE])
        EXCEPT !.th.pc = "dead"]

\* The head of the loop over stock_list in download_thread
LoopOverList(w) ==
    IF w.th.i >= Len(w.th.list) \/ ~w.manager.is_downloading
    THEN ThreadEnd(w)
    ELSE smart_download_stock_data([w EXCEPT !.th.late = @ \/ w.th.stopped],
                                   w.th.list[w.th.i + 1])

Visit(th, needed, fetched) ==
    [th EXCEPT !.visited = Append(@, [interval |-> intervals_config[th.k + 1].interval,
                                      needed |-> needed, fetched |-> fetched])]

\* The head of the loop over intervals_config in smart_download_stock_data
LoopOverIntervals(w) ==
    IF w.th.k >= Len(intervals_config) \/ ~w.manager.is_downloading
    THEN Returned(task_callback(w, IF w.th.total_success > 0 THEN "success" ELSE "failed"))
    ELSE IF ~check_data_completeness(w.manager, w.th.list[w.th.i + 1],
                                     intervals_config[w.th.k + 1].interval)
    THEN [task_callback([w EXCEPT !.th = Visit(@, FALSE, FALSE)], "progress")
             EXCEPT !.th.k = @ + 1]
    ELSE [w EXCEPT !.th.pc = "fetch", !.th.late = @ \/ w.th.stopped]

Good(oracle) == oracle.data = "data" /\ oracle.is_data_complete

\* One interval of smart_download_stock_data after the delay: the fetch, the
\* check of the rows, the save and the callback
FetchInterval(w, oracle) ==
    IF oracle.raises
    THEN Returned(task_callback([w EXCEPT !.th = Visit(@, TRUE, TRUE)], "error"))
    ELSE [task_callback([w EXCEPT !.th = Visit(@, TRUE, TRUE)], "progress")
             EXCEPT !.th.k = @ + 1, !.th.pc = "interval",
                    !.th.total_success =
                        IF Good(oracle) /\ oracle.saved_count > 0 THEN @ + 1 ELSE @]

\* download_single_interval: the daily interval only
download_single_interval(w, oracle) ==
    IF ~check_data_completeness(w.manager, w.th.list[w.th.i + 1], "1d")
    THEN Returned(task_callback([w EXCEPT !.th = Visit(@, FALSE, FALSE)], "skip"))
    ELSE IF oracle.raises
    THEN Returned(task_callback([w EXCEPT !.th = Visit(@, TRUE, TRUE)], "error"))
    ELSE Returned(task_callback(
             [w EXCEPT !.th = Visit(@, TRUE, TRUE)],
             IF Good(oracle) THEN "success" ELSE "failed"))

\* batch_download_stocks / batch_download_derivatives
batch_download_stocks(manager, thread_list, stock_list, download_all_intervals) ==
    IF manager.is_downloading
    THEN [success |-> FALSE, manager |-> manager, threads |-> thread_list]
    ELSE [success |-> TRUE,
          manager |-> [manager EXCEPT !.is_downloading = TRUE,
                                      !.total_tasks = Len(stock_list),
                                      !.completed_tasks = 0],
          threads |-> Append(thread_list, NewThread("batch", stock_list, download_all_intervals))]

\* stop_download
stop_download(manager) == [manager EXCEPT !.is_downloading = FALSE]

\* The selections the batch list allows: its items in the order of the list
BatchList == << <<"2", "3", "3", "0">>, <<"N", "a", "N">> >>
Selections ==
    {SelectSeq(BatchList, LAMBDA s : s \in chosen) :
        chosen \in {c \in SUBSET StockIds : c # {} /\ Cardinality(c) <= MaxStocks}}

\* What the database holds complete at the start
CompleteAtStart ==
    { {<<s, intervals_config[k].interval>> : s \in StockIds, k \in 1..3},
      {<<s, intervals_config[k].interval>> : s \in StockIds, k \in 1..Len(intervals_config)} }

\* ---------------------------------------- specification: SpecDownload
\* The download tool: batch downloads started and stopped, smart downloads

DownloadInit ==
    /\ download_manager \in {[is_downloading |-> FALSE, total_tasks |-> 0,
                              completed_tasks |-> 0, complete |-> c] :
                                 c \in CompleteAtStart}
    /\ threads = <<>>
    /\ batch_ui = [start_batch_btn |-> "normal", stop_batch_btn |-> "disabled",
                   batch_progress |-> 0, progress |-> 0, writers |-> {}]
    /\ ImportIdle
    /\ ToolsIdleBut({"download"})

World(n) == [manager |-> download_manager, th |-> threads[n], ui |-> batch_ui]

Becomes(n, w) ==
    /\ download_manager' = w.manager
    /\ threads' = [threads EXCEPT ![n] = w.th]
    /\ batch_ui' = w.ui
    /\ UNCHANGED importVars
    /\ ToolsFrozenBut({"download"})

\* start_batch_download, pressed while its button is enabled
StartBatchDownload ==
    /\ batch_ui.start_batch_btn = "normal"
    /\ Len(threads) < MaxThreads
    /\ \E selected_items \in Selections, download_all \in BOOLEAN :
          \E r \in {batch_download_stocks(download_manager, threads,
                                          selected_items, download_all)} :
              /\ download_manager' = r.manager
              /\ threads' = r.threads
              /\ batch_ui' = WidgetWrite(
                     [batch_ui EXCEPT
                         !.start_batch_btn = IF r.success THEN "disabled" ELSE "normal",
                         !.stop_batch_btn = IF r.success THEN "normal" ELSE "disabled"],
                     "ui")
    /\ UNCHANGED importVars
    /\ ToolsFrozenBut({"download"})

\* stop_batch_download, pressed while its button is enabled
StopBatchDownload ==
    /\ batch_ui.stop_batch_btn = "normal"
    /\ download_manager' = stop_download(download_manager)
    /\ threads' = [n \in 1..Len(threads) |->
                      IF threads[n].kind = "batch" /\ Alive(threads[n])
                      THEN [threads[n] EXCEPT !.stopped = TRUE]
                      ELSE threads[n]]
    /\ batch_ui' = WidgetWrite([batch_ui EXCEPT !.start_batch_btn = "normal",
                                                !.stop_batch_btn = "disabled"], "ui")
    /\ UNCHANGED importVars
    /\ ToolsFrozenBut({"download"})

\* smart_download of one Taiwan symbol
SmartDownload ==
    /\ Len(threads) < MaxThreads
    /\ \E ticker \in StockIds, download_all \in BOOLEAN :
          threads' = Append(threads, NewThread("smart", <<ticker \o T_TW>>, download_all))
    /\ batch_ui' = WidgetWrite([batch_ui EXCEPT !.progress = 0], "ui")
    /\ UNCHANGED download_manager
    /\ UNCHANGED importVars
    /\ ToolsFrozenBut({"download"})

ThreadLoopOverList ==
    \E n \in 1..Len(threads) :
        /\ threads[n].pc = "symbol"
        /\ \E w \in {LoopOverList(World(n))} : Becomes(n, w)

ThreadSmartDownload ==
    \E n \in 1..Len(threads) :
        /\ threads[n].pc = "begin"
        /\ \E w \in {smart_download_stock_data(World(n), threads[n].list[1])} :
              Becomes(n, w)

ThreadLoopOverIntervals ==
    \E n \in 1..Len(threads) :
        /\ threads[n].pc = "interval"
        /\ \E w \in {LoopOverIntervals(World(n))} : Becomes(n, w)

ThreadFetchInterval ==
    \E n \in 1..Len(threads) :
        /\ threads[n].pc = "fetch"
        /\ \E oracle \in FetchOracles :
              \E w \in {FetchInterval(World(n), oracle)} : Becomes(n, w)

ThreadSingleInterval ==
    \E n \in 1..Len(threads) :
        /\ threads[n].pc = "single"
        /\ \E oracle \in FetchOracles :
              \E w \in {download_single_interval(World(n), oracle)} : Becomes(n, w)

DownloadNext ==
    \/ StartBatchDownload
    \/ StopBatchDownload
    \/ SmartDownload
    \/ ThreadLoopOverList
    \/ ThreadSmartDownload
    \/ ThreadLoopOverIntervals
    \/ ThreadFetchInterval
    \/ ThreadSingleInterval

SpecDownload == DownloadInit /\ [][DownloadNext]_vars

\* ===================================================================
\* txo_downloader: the daily download
\* ===================================================================

MaxDay == 7          \* the dates of the check are day 0 (a Monday) .. MaxDay

\* current.weekday(): 0 is Monday
weekday(day) == day % 7

\* What one date may meet: the completeness check raises, the date is already
\* complete, the request fails or the page holds no table (the download gives
\* None), the frame is empty, the save fails, or all goes well
DateOutcomes ==
    {"check_raises", "complete", "download_none", "download_empty", "save_failed", "saved"}

\* self.記錄訊息(...) about the date current
Logged(run, message) ==
    [run EXCEPT !.log = Append(@, [date |-> run.current, message |-> message])]

\* A failure that is told and not counted
IgnoreFailure(run, message) == Logged(run, message)

\* fail_count += 1; failed_dates.append(date_str)
RecordFailure(run, message) ==
    [Logged(run, message) EXCEPT !.fail_count = @ + 1,
                                 !.failed_dates = Append(@, run.current)]

\* One pass of the loop of the download: the date current, then current - 1
DownloadDay(run, outcome) ==
    IF run.current < run.start
    THEN [run EXCEPT !.state = "done"]
    ELSE IF weekday(run.current) >= 5
    THEN [Logged(run, "weekend") EXCEPT !.current = @ - 1]
    ELSE IF outcome = "check_raises"
    THEN [Logged(run, "error") EXCEPT !.state = "aborted"]
    ELSE IF outcome = "complete"
    THEN [Logged(run, "skipped") EXCEPT !.skip_count = @ + 1, !.current = @ - 1]
    ELSE IF outcome = "saved"
    THEN [Logged(run, "success") EXCEPT !.success_count = @ + 1, !.current = @ - 1]
    ELSE IF outcome = "save_failed"
    THEN [RecordFailure(run, "save_failed") EXCEPT !.current = @ - 1]
    ELSE [RecordFailure(run, "download_failed") EXCEPT !.current = @ - 1]

\* --------------------------------------------- specification: SpecTxo
\* One run of the download over the dates start .. end, from end backwards

TxoInit ==
    /\ txo \in {[start |-> s, end |-> e, current |-> e, state |-> "running",
                 success_count |-> 0, skip_count |-> 0, fail_count |-> 0,
                 failed_dates |-> <<>>, log |-> <<>>] :
                   s \in 0..MaxDay, e \in 0..MaxDay}
    /\ ImportIdle
    /\ ToolsIdleBut({"txo"})

DownloadData ==
    /\ txo.state = "running"
    /\ \E outcome \in DateOutcomes :
          \E r \in {DownloadDay(txo, outcome)} : txo' = r
    /\ UNCHANGED importVars
    /\ ToolsFrozenBut({"txo"})

TxoNext == DownloadData

SpecTxo == TxoInit /\ [][TxoNext]_vars

\* ===================================================================
\* BacktestEngine: the strategies' scans
\* ===================================================================

MaxBars == 6         \* most bars of a price series

\* The first bar each strategy looks at (for i in range(first, len(self.data)))
FirstBar ==
    [kd_crossover_strategy |-> 2, ema_rebound_strategy |-> 1, triple_screen_strategy |-> 5]

Strategies == DOMAIN FirstBar

\* What the indicators say at one bar: whether the strategy's entry condition
\* holds there, and whether its exit condition would
Bars == [entry : BOOLEAN, exit : BOOLEAN]

Trade(type, i, reason) == [type |-> type, index |-> i, reason |-> reason]

\* if <entry condition> and position is None: ... elif position == 'long': ...
EntryOrExit(scan, bar, i) ==
    IF bar.entry /\ scan.position = NoLabel
    THEN [position |-> "long", trades |-> Append(scan.trades, Trade("entry", i, NoLabel))]
    ELSE IF scan.position = "long" /\ bar.exit
    THEN [position |-> NoLabel, trades |-> Append(scan.trades, Trade("exit", i, "signal"))]
    ELSE scan

\* if position and i == len(self.data) - 1: the forced close
ForceClose(scan, i, last_bar) ==
    IF scan.position # NoLabel /\ i = last_bar
    THEN [position |-> NoLabel, trades |-> Append(scan.trades, Trade("exit", i, "force_close"))]
    ELSE scan

\* One bar of kd_crossover_strategy and triple_screen_strategy
ScanBar(scan, bar, i, last_bar) == ForceClose(EntryOrExit(scan, bar, i), i, last_bar)

\* One bar of ema_rebound_strategy: the forced close is a branch of the
\* elif position == 'long' part
ReboundBar(scan, bar, i, last_bar) ==
    IF bar.entry /\ scan.position = NoLabel
    THEN [position |-> "long", trades |-> Append(scan.trades, Trade("entry", i, NoLabel))]
    ELSE IF scan.position = "long"
    THEN IF bar.exit
         THEN [position |-> NoLabel,
               trades |-> Append(scan.trades, Trade("exit", i, "stop_loss"))]
         ELSE IF i = last_bar
         THEN [position |-> NoLabel,
               trades |-> Append(scan.trades, Trade("exit", i, "force_close"))]
         ELSE scan
    ELSE scan

\* The scan of a strategy from bar i on; bar i of the series is data[i + 1]
RECURSIVE ScanFrom(_, _, _, _)
ScanFrom(strategy, data, i, scan) ==
    IF i >= Len(data) THEN scan
    ELSE ScanFrom(strategy, data, i + 1,
                  IF strategy = "ema_rebound_strategy"
                  THEN ReboundBar(scan, data[i + 1], i, Len(data) - 1)
                  ELSE ScanBar(scan, data[i + 1], i, Len(data) - 1))

RunStrategy(strategy, data) ==
    ScanFrom(strategy, data, FirstBar[strategy], [position |-> NoLabel, trades |-> <<>>])

\* ----------------------------------------- specification: SpecBacktest
\* One strategy run over one price series

BacktestInit ==
    /\ backtest \in {[strategy |-> s, data |-> d, result |-> Pending] :
                        s \in Strategies,
                        d \in UNION {[1..n -> Bars] : n \in 0..MaxBars}}
    /\ ImportIdle
    /\ ToolsIdleBut({"backtest"})

RunBacktest ==
    /\ backtest.result = Pending
    /\ backtest' = [backtest EXCEPT !.result = RunStrategy(backtest.strategy, backtest.data)]
    /\ UNCHANGED importVars
    /\ ToolsFrozenBut({"backtest"})

BacktestNext == RunBacktest

SpecBacktest == BacktestInit /\ [][BacktestNext]_vars

\* ------------------------------------------------ the daily download again
\* Two runs over the same dates, with the rows txo_options holds of each date

RecordThreshold == 1000

\* The rows stored of one date: how many, and the run that saved them (0: they
\* were there before the first run)
StoredRows(record_count, saved_by) == [record_count |-> record_count, saved_by |-> saved_by]

\* A date counts as complete as soon as it has a row
check_date_nonempty(db, date) == db[date].record_count > 0

\* 檢查日期數據完整性: record_count > 1000 and expiry_count >= 1; expiry_date is
\* NOT NULL, so a date with rows has an expiry
check_date_completeness(db, date) ==
    db[date].record_count > RecordThreshold /\ db[date].record_count >= 1

\* 保存到數據庫: the date's rows are deleted and the frame's rows appended in
\* one transaction; when it fails nothing is committed
save_to_database(db, date, rows, run_no, ok) ==
    IF rows = 0 \/ ~ok THEN db
    ELSE [db EXCEPT ![date] = StoredRows(rows, run_no)]

\* What the site and the database do for one date: the completeness query
\* raises or not, the download gives None, an empty frame or a frame of rows,
\* the save works or not
DayOracles ==
    [check_raises : BOOLEAN, download : {"none", "empty", "rows"},
     rows : {500, 1500}, save_ok : BOOLEAN]

\* What 下載數據 meets at the date current, given the stored rows
OutcomeOf(run, oracle) ==
    IF oracle.check_raises THEN "check_raises"
    ELSE IF check_date_completeness(run.db, run.current) THEN "complete"
    ELSE IF oracle.download = "none" THEN "download_none"
    ELSE IF oracle.download = "empty" THEN "download_empty"
    ELSE IF oracle.save_ok THEN "saved" ELSE "save_failed"

Downloads(run, oracle) ==
    /\ run.current >= run.start
    /\ weekday(run.current) < 5
    /\ OutcomeOf(run, oracle) \in {"saved", "save_failed"}

\* One pass of the loop with the database
DownloadDayStored(run, oracle) ==
    [DownloadDay(run, OutcomeOf(run, oracle)) EXCEPT
        !.db = IF Downloads(run, oracle)
               THEN save_to_database(@, run.current, oracle.rows, run.run_no, oracle.save_ok)
               ELSE @]

\* The next press of the download button with the same dates
NextRun(run) ==
    [run EXCEPT !.run_no = @ + 1, !.current = run.end, !.state = "running",
                !.success_count = 0, !.skip_count = 0, !.fail_count = 0,
                !.failed_dates = <<>>, !.log = <<>>,
                !.db_before = run.db,
                !.failed_before = {run.failed_dates[j] : j \in 1..Len(run.failed_dates)}]

FirstRunDay == 4     \* the dates of the two runs are day 4 (a Friday) .. MaxDay

RunDays == FirstRunDay..MaxDay

\* ----------------------------------------- specification: SpecTxoRuns

TxoRunsInit ==
    /\ txo \in {[start |-> s, end |-> e, current |-> e, state |-> "running",
                 success_count |-> 0, skip_count |-> 0, fail_count |-> 0,
                 failed_dates |-> <<>>, log |-> <<>>,
                 run_no |-> 1, db |-> db, db_before |-> db, failed_before |-> {}] :
                   s \in RunDays, e \in RunDays,
                   db \in [RunDays -> {StoredRows(n, 0) : n \in {0, 500, 1500}}]}
    /\ ImportIdle
    /\ ToolsIdleBut({"txo"})

DownloadDataStored ==
    /\ txo.state = "running"
    /\ \E oracle \in DayOracles :
          \E r \in {DownloadDayStored(txo, oracle)} : txo' = r
    /\ UNCHANGED importVars
    /\ ToolsFrozenBut({"txo"})

DownloadAgain ==
    /\ txo.state # "running"
    /\ txo.run_no = 1
    /\ txo' = NextRun(txo)
    /\ UNCHANGED importVars
    /\ ToolsFrozenBut({"txo"})

TxoRunsNext == DownloadDataStored \/ DownloadAgain

SpecTxoRuns == TxoRunsInit /\ [][TxoRunsNext]_vars

\* ------------------------------------------------ backtest performance
\* Prices are whole points.  Money is counted in units of 1 / CommissionInverse
\* of a point, so that (entry + exit) * commission is a whole number and the
\* arithmetic of calculate_performance is exact.

CommissionInverse == 5000      \* commission=0.0002
InitialEquity == 100000        \* equity_curve = [100000]

Units(points) == points * CommissionInverse

\* pnl_points of a pair, in points
pnl_points(entry, exit_trade) ==
    IF entry.position = "long" THEN exit_trade.price - entry.price
    ELSE entry.price - exit_trade.price

\* trade_cost = (entry['price'] + exit_trade['price']) * self.commission, in units
FreeOfCharge(entry, exit_trade) == 0
trade_cost(entry, exit_trade) == entry.price + exit_trade.price

\* net_pnl = pnl_points - trade_cost, in units
net_pnl(entry, exit_trade) ==
    Units(pnl_points(entry, exit_trade)) - trade_cost(entry, exit_trade)

\* A ratio num / den with den > 0
Ratio(num, den) == [num |-> num, den |-> den]

\* a / b < c / d for b, d > 0, by the whole parts and then the remainders
\* (no product is formed, the amounts are large)
RECURSIVE FracLess(_, _, _, _)
FracLess(a, b, c, d) ==
    IF a < 0 \/ c < 0
    THEN IF a < 0 /\ c >= 0 THEN TRUE
         ELSE IF a >= 0 /\ c < 0 THEN FALSE
         ELSE FracLess(-c, d, -a, b)
    ELSE IF (a \div b) # (c \div d) THEN (a \div b) < (c \div d)
    ELSE IF c % d = 0 THEN FALSE
    ELSE IF a % b = 0 THEN TRUE
    ELSE FracLess(d, c % d, b, a % b)

RatioLess(x, y) == FracLess(x.num, x.den, y.num, y.den)

\* if equity > peak: peak = equity
KeepFirstPeak(peak, equity) == peak
RunningPeak(peak, equity) == IF equity > peak THEN equity ELSE peak

\* The loop of calculate_max_drawdown from point i on
RECURSIVE DrawdownFrom(_, _, _, _)
DrawdownFrom(equity_curve, i, peak, max_dd) ==
    IF i > Len(equity_curve) THEN max_dd
    ELSE
        LET Pointed(new_peak) ==
                LET dd == Ratio(new_peak - equity_curve[i], new_peak)
                IN  DrawdownFrom(equity_curve, i + 1, new_peak,
                                 IF RatioLess(max_dd, dd) THEN dd ELSE max_dd)
        IN  Pointed(RunningPeak(peak, equity_curve[i]))

calculate_max_drawdown(equity_curve) ==
    DrawdownFrom(equity_curve, 1, equity_curve[1], Ratio(0, 1))

\* for i in range(0, len(trades)-1, 2): the pairs from event i (counted from 1)
\* on; acc is [current_equity, equity_curve, pnl]
RECURSIVE PairFrom(_, _, _)
PairFrom(trades, i, acc) ==
    IF i + 1 > Len(trades) THEN acc
    ELSE IF trades[i].type = "entry" /\ trades[i + 1].type = "exit"
    THEN PairFrom(trades, i + 2,
             [current_equity |-> acc.current_equity + net_pnl(trades[i], trades[i + 1]),
              equity_curve |-> Append(acc.equity_curve,
                                  acc.current_equity + net_pnl(trades[i], trades[i + 1])),
              pnl |-> Append(acc.pnl, net_pnl(trades[i], trades[i + 1]))])
    ELSE PairFrom(trades, i + 2, acc)

\* calculate_performance(trades): None, or the performance record (the keys
\* the figures of the report are read from)
calculate_performance(trades) ==
    IF Len(trades) < 2 THEN None
    ELSE
        LET Paired(acc) ==
                IF acc.pnl = <<>> THEN None
                ELSE [total_trades |-> Len(acc.pnl),
                      winning_trades |-> Cardinality({j \in 1..Len(acc.pnl) : acc.pnl[j] > 0}),
                      losing_trades |-> Cardinality({j \in 1..Len(acc.pnl) : acc.pnl[j] < 0}),
                      max_drawdown |-> calculate_max_drawdown(acc.equity_curve),
                      final_equity |-> acc.current_equity,
                      equity_curve |-> acc.equity_curve,
                      pnl |-> acc.pnl]
        IN  Paired(PairFrom(trades, 1,
                       [current_equity |-> Units(InitialEquity),
                        equity_curve |-> <<Units(InitialEquity)>>,
                        pnl |-> <<>>]))

MaxEvents == 5       \* most trade events of a list

Prices == {100, 130}

TradeEvents == [type : {"entry", "exit"}, position : {"long", "short"}, price : Prices]

\* ----------------------------------------- specification: SpecPerformance

PerformanceInit ==
    /\ backtest \in {[trades |-> t, result |-> Pending] :
                        t \in UNION {[1..n -> TradeEvents] : n \in 0..MaxEvents}}
    /\ ImportIdle
    /\ ToolsIdleBut({"backtest"})

CalculatePerformance ==
    /\ backtest.result = Pending
    /\ \E r \in {calculate_performance(backtest.trades)} :
          backtest' = [backtest EXCEPT !.result = r]
    /\ UNCHANGED importVars
    /\ ToolsFrozenBut({"backtest"})

PerformanceNext == CalculatePerformance

SpecPerformance == PerformanceInit /\ [][PerformanceNext]_vars

\* ------------------------------------------------ txo_db_ui: draw_plots
\* Frames are sequences of the rows WithDeltas makes; a strike is in points.

RecentSessions == 5        \* .head(5)
AnomaliesKept == 10        \* anomalies[:10]

\* hist: the rows of all_agg of the row's strike and cp
HistAll(all_agg, r) ==
    {j \in 1..Len(all_agg) :
        /\ all_agg[j].Strike = r.Strike /\ all_agg[j].CP = r.CP
        /\ all_agg[j].Date < r.Date}

\* hist_recent: those of hist before the row's date, the 5 latest
\* (all_agg has one row per date, strike and cp)
HistRecent(all_agg, r) ==
    {j \in HistAll(all_agg, r) :
        Cardinality({k \in HistAll(all_agg, r) : all_agg[k].Date > all_agg[j].Date})
            < RecentSessions}

RECURSIVE SumAbsDelta(_, _)
SumAbsDelta(all_agg, J) ==
    IF J = {} THEN 0
    ELSE SumAbsDelta(all_agg, J \ {Min(J)}) + Abs(all_agg[Min(J)].delta_1)

\* mean_recent > 0 and absd > mean_recent * 3, mean_recent being
\* sum / count of hist_recent["delta_1"].abs(), or 0.0 for no row
RelFlag(absd, sum, count) == count > 0 /\ sum > 0 /\ absd * count > 3 * sum

\* abs(strike - atm_strike) > strike_window and absd >= 400
OutsideFlag(strike, absd, atm_strike, strike_window) ==
    /\ atm_strike # NULL
    /\ Abs(strike - atm_strike) > strike_window
    /\ absd >= 400

\* The local variables of one pass of the loop over agg_day
RowFlags(r, all_agg, atm_strike, strike_window) ==
    [Strike |-> r.Strike, CP |-> r.CP, delta |-> r.delta_1, abs |-> Abs(r.delta_1),
     level |-> anomaly_level(r.delta_1),
     rel_flag |-> RelFlag(Abs(r.delta_1),
                          SumAbsDelta(all_agg, HistRecent(all_agg, r)),
                          Cardinality(HistRecent(all_agg, r))),
     outside_flag |-> OutsideFlag(r.Strike, Abs(r.delta_1), atm_strike, strike_window)]

\* The dict appended to anomalies
AnomalyOf(f) ==
    [Strike |-> f.Strike, CP |-> f.CP, delta |-> f.delta, abs |-> f.abs,
     level |-> IF f.level # NoLabel THEN f.level
               ELSE IF f.rel_flag THEN "relative"
               ELSE IF f.outside_flag THEN "remote" ELSE "anomaly",
     outside |-> f.outside_flag]

\* sorted(anomalies, key=lambda x: x["abs"], reverse=True): a stable sort
RECURSIVE SortedByAbs(_)
SortedByAbs(anomalies) ==
    IF anomalies = <<>> THEN <<>>
    ELSE LET first == CHOOSE i \in 1..Len(anomalies) :
                          /\ \A j \in 1..Len(anomalies) : anomalies[j].abs <= anomalies[i].abs
                          /\ \A j \in 1..(i - 1) : anomalies[j].abs < anomalies[i].abs
         IN  <<anomalies[first]>>
                 \o SortedByAbs([j \in 1..(Len(anomalies) - 1) |->
                                    IF j < first THEN anomalies[j] ELSE anomalies[j + 1]])

FirstN(s, n) == SubSeq(s, 1, IF Len(s) < n THEN Len(s) ELSE n)

\* detect_anomalies_for_date: the flags of every row of the day (flags), and
\* results["anomalies"]
detect_anomalies_for_date(agg_day, all_agg, atm_strike, strike_window) ==
    LET Flagged(flags) ==
            LET is_anomaly(f) == f.level # NoLabel \/ f.rel_flag \/ f.outside_flag
                anomalies == SelectSeq(flags, is_anomaly)
            IN  [flags |-> flags,
                 anomalies |-> FirstN(SortedByAbs([j \in 1..Len(anomalies) |->
                                                      AnomalyOf(anomalies[j])]),
                                      AnomaliesKept)]
    IN  Flagged([i \in 1..Len(agg_day) |->
                    RowFlags(agg_day[i], all_agg, atm_strike, strike_window)])

\* sorted(self.agg["履約價"].unique())
RECURSIVE SortedStrikes(_)
SortedStrikes(S) == IF S = {} THEN <<>> ELSE <<Min(S)>> \o SortedStrikes(S \ {Min(S)})

StrikesOf(frame) == {frame[i].Strike : i \in 1..Len(frame)}

OIOfStrike(agg_day, k) ==
    SumAbsDelta([i \in 1..Len(agg_day) |-> [delta_1 |-> agg_day[i].OI]],
                {i \in 1..Len(agg_day) : agg_day[i].Strike = k})

\* agg_day.groupby("履約價")["OI"].sum().idxmax(): the first strike of the
\* largest sum (an OI is never negative)
AtmCandidate(agg_day) ==
    CHOOSE k \in StrikesOf(agg_day) :
        \A other \in StrikesOf(agg_day) :
            \/ OIOfStrike(agg_day, other) < OIOfStrike(agg_day, k)
            \/ OIOfStrike(agg_day, other) = OIOfStrike(agg_day, k) /\ k <= other

\* vis_strikes = all_strikes[max(0, idx-win) : min(len-1, idx+win) + 1]
VisStrikes(all_strikes, atm, win) ==
    LET idx == CHOOSE i \in 1..Len(all_strikes) : all_strikes[i] = atm
    IN  {all_strikes[i] : i \in {j \in 1..Len(all_strikes) : Abs(j - idx) <= win}}

\* on_load_data from the frame read from the database on
on_load_data(ui) == [ui EXCEPT !.agg = aggregate_daily_from_df(ui.df_raw), !.loaded = TRUE]

\* draw_plots: the last date of the frame, the at-the-money strike, the strikes
\* drawn and the anomalies listed
draw_plots(ui) ==
    LET selected_date == CHOOSE d \in {ui.agg[i].Date : i \in 1..Len(ui.agg)} :
                             \A i \in 1..Len(ui.agg) : ui.agg[i].Date <= d
        on_day(r) == r.Date = selected_date
        Drawn(agg_day, atm) ==
            [ui EXCEPT !.result =
                [date |-> selected_date, atm |-> atm,
                 vis_strikes |-> VisStrikes(SortedStrikes(StrikesOf(ui.agg)), atm, ui.win),
                 detected |-> detect_anomalies_for_date(agg_day, ui.agg, atm, ui.win)]]
    IN  Drawn(SelectSeq(ui.agg, on_day), AtmCandidate(SelectSeq(ui.agg, on_day)))

MaxSessions == 7     \* most dates of the frame loaded

\* One contract with a row on each of the last dates, and two more strikes
\* that may have a row on the last date
PlotRow(d, k, cp, oi) == [date |-> d, strike |-> k, cp |-> cp, oi |-> oi, session |-> "general"]

PlotFrames ==
    {[i \in 1..Len(h) |-> PlotRow(MaxSessions - Len(h) + i, 17000, "call", h[i])] \o b \o c :
        h \in SeqsOf({100, 200, 1000}, 1, MaxSessions),
        b \in {<<>>, <<PlotRow(MaxSessions, 17100, "call", 500)>>},
        c \in {<<>>, <<PlotRow(MaxSessions, 17200, "put", 300)>>,
               <<PlotRow(MaxSessions, 17200, "put", 1500)>>}}

Windows == {1, 10, 100}

\* ----------------------------------------------- specification: SpecPlot

PlotInit ==
    /\ plot \in {[df_raw |-> f, win |-> w, loaded |-> FALSE, agg |-> <<>>,
                  result |-> Pending] :
                    f \in PlotFrames, w \in Windows}
    /\ ImportIdle
    /\ ToolsIdleBut({"plot"})

OnLoadData ==
    /\ ~plot.loaded
    /\ \E r \in {on_load_data(plot)} : plot' = r
    /\ UNCHANGED importVars
    /\ ToolsFrozenBut({"plot"})

DrawPlots ==
    /\ plot.loaded
    /\ plot.result = Pending
    /\ \E r \in {draw_plots(plot)} : plot' = r
    /\ UNCHANGED importVars
    /\ ToolsFrozenBut({"plot"})

PlotNext == OnLoadData \/ DrawPlots

SpecPlot == PlotInit /\ [][PlotNext]_vars

\* ------------------------------------------------ txo_downloader: 日期選擇器
\* The picker holds 年變數, 月變數, 日變數 (texts of whole numbers, kept here as
\* the numbers int() reads from them) and the options of the day combobox
\* (options: the days 1..options).  op and before remember the last operation
\* and the year and month it found.

\* (年 % 4 == 0 and 年 % 100 != 0) or (年 % 400 == 0)
EveryFourthYear(year) == year % 4 = 0
IsLeapYear(year) == (year % 4 = 0 /\ year % 100 # 0) \/ year % 400 = 0

\* 天數
DaysInMonth(year, month) ==
    IF month \in {1, 3, 5, 7, 8, 10, 12} THEN 31
    ELSE IF month \in {4, 6, 9, 11} THEN 30
    ELSE IF IsLeapYear(year) THEN 29 ELSE 28

\* 更新日期範圍: the options of the day combobox become 1..天數, a day beyond
\* them becomes 天數
update_date_range(p) ==
    [p EXCEPT !.options = DaysInMonth(p.year, p.month),
              !.day = IF @ > DaysInMonth(p.year, p.month)
                      THEN DaysInMonth(p.year, p.month) ELSE @]

\* 上一年, 下一年
previous_year(p) == update_date_range([p EXCEPT !.year = @ - 1])
next_year(p) == update_date_range([p EXCEPT !.year = @ + 1])

\* 上一月, 下一月
previous_month(p) ==
    update_date_range(IF p.month > 1 THEN [p EXCEPT !.month = @ - 1]
                      ELSE previous_year([p EXCEPT !.month = 12]))
next_month(p) ==
    update_date_range(IF p.month < 12 THEN [p EXCEPT !.month = @ + 1]
                      ELSE next_year([p EXCEPT !.month = 1]))

\* 設置日期("yyyy/mm/dd") of a date that exists: lstrip('0') takes the leading
\* zero of the month and day texts, which int() reads as the same numbers
set_date(p, date) ==
    update_date_range([p EXCEPT !.year = date.year, !.month = date.month,
                                !.day = date.day])

\* The operator picks one of the options of the day combobox
select_day(p, day) == [p EXCEPT !.day = day]

Did(p, op, r) == [r EXCEPT !.op = op, !.before = [year |-> p.year, month |-> p.month]]

YearSpan == 1        \* the years of the check lie this far around 1900, 2000 and 2024

Years == UNION {(c - YearSpan)..(c + YearSpan) : c \in {1900, 2000, 2024}}

\* Dates that exist, as the calendar has them
CalendarDates ==
    {[year |-> y, month |-> m, day |-> d] :
        y \in Years, m \in {1, 2, 4, 12}, d \in {28, 29, 30, 31}}
    \ ({[year |-> y, month |-> 2, day |-> d] : y \in Years, d \in {30, 31}}
          \cup {[year |-> y, month |-> 4, day |-> 31] : y \in Years}
          \cup {[year |-> y, month |-> 2, day |-> 29] : y \in Years \ {2000, 2024}})

\* --------------------------------------------- specification: SpecPicker

\* 配置界面: today's date, then 更新日期範圍
PickerInit ==
    /\ picker \in {update_date_range(
                       [year |-> t.year, month |-> t.month, day |-> t.day, options |-> 31,
                        op |-> "init", before |-> [year |-> t.year, month |-> t.month]]) :
                     t \in CalendarDates}
    /\ ImportIdle
    /\ ToolsIdleBut({"picker"})

PreviousYear ==
    /\ picker.year - 1 \in Years
    /\ \E r \in {previous_year(picker)} : picker' = Did(picker, "previous_year", r)
    /\ UNCHANGED importVars
    /\ ToolsFrozenBut({"picker"})

NextYear ==
    /\ picker.year + 1 \in Years
    /\ \E r \in {next_year(picker)} : picker' = Did(picker, "next_year", r)
    /\ UNCHANGED importVars
    /\ ToolsFrozenBut({"picker"})

PreviousMonth ==
    /\ picker.month > 1 \/ picker.year - 1 \in Years
    /\ \E r \in {previous_month(picker)} : picker' = Did(picker, "previous_month", r)
    /\ UNCHANGED importVars
    /\ ToolsFrozenBut({"picker"})

NextMonth ==
    /\ picker.month < 12 \/ picker.year + 1 \in Years
    /\ \E r \in {next_month(picker)} : picker' = Did(picker, "next_month", r)
    /\ UNCHANGED importVars
    /\ ToolsFrozenBut({"picker"})

SetDate ==
    /\ \E date \in CalendarDates :
          \E r \in {set_date(picker, date)} : picker' = Did(picker, "set_date", r)
    /\ UNCHANGED importVars
    /\ ToolsFrozenBut({"picker"})

SelectDay ==
    /\ \E day \in 1..picker.options :
          \E r \in {select_day(picker, day)} : picker' = Did(picker, "select_day", r)
    /\ UNCHANGED importVars
    /\ ToolsFrozenBut({"picker"})

PickerNext ==
    PreviousYear \/ NextYear \/ PreviousMonth \/ NextMonth \/ SetDate \/ SelectDay

SpecPicker == PickerInit /\ [][PickerNext]_vars

\* ===================================================================
\* Properties
\* ===================================================================

\* -------------------------------------------------------------- C1
RowCounts ==
    <<Cardinality(options_raw), Cardinality(futures_raw), Cardinality(stocks_raw),
      Cardinality(scraper_db.options_raw), Cardinality(scraper_db.futures_raw),
      Cardinality(scraper_db.stocks_raw)>>

\* C1: importing a CSV file that the import before it was given leaves the
\* row counts of options_raw, futures_raw and stocks_raw as they were, in the
\* txo_db_ui database and in the scraper's.
C1_ReimportKeepsRowCounts ==
    [][(/\ last # None
        /\ last'.op = last.op
        /\ last.op \in {"on_import_single_file", "import_csv_to_database"}
        /\ last'.file = last.file) => RowCounts' = RowCounts]_vars

\* A file of two option rows was imported, both rows were stored, and the
\* same file has been imported again
C1_Witness ==
    /\ last # None
    /\ last.op = "on_import_single_file"
    /\ last.again
    /\ last.file.is_option
    /\ Cardinality(options_raw) = 2
    /\ \A i \in 1..Len(last.file.rows) :
          \E x \in options_raw : x.trade_date = last.file.rows[i].trade_date
    /\ last.committed = 0

\* -------------------------------------------------------------- C2
\* C2: no two rows of options_raw share (trade_date, product, expiry, strike,
\* cp, session), no two rows of futures_raw share (trade_date, product,
\* expiry, session), no two rows of stocks_raw share (trade_date, symbol), in
\* either database.
C2_NaturalKeysUnique ==
    \A db \in {UiDb, scraper_db} :
        /\ \A x, y \in db.options_raw :
              (/\ x.trade_date = y.trade_date /\ x.product = y.product
               /\ x.expiry = y.expiry /\ x.strike = y.strike
               /\ x.cp = y.cp /\ x.session = y.session) => x = y
        /\ \A x, y \in db.futures_raw :
              (/\ x.trade_date = y.trade_date /\ x.product = y.product
               /\ x.expiry = y.expiry /\ x.session = y.session) => x = y
        /\ \A x, y \in db.stocks_raw :
              (x.trade_date = y.trade_date /\ x.symbol = y.symbol) => x = y

\* An import whose row has the key of a stored row, under a blank 契約 cell
\* that the existence query does not match, has run and was rolled back
C2_Witness ==
    /\ last # None
    /\ last.op = "on_import_single_file"
    /\ last.file.is_option
    /\ \E i \in 1..Len(last.file.rows) :
          /\ last.file.rows[i].contract = ""
          /\ \E x \in options_raw :
                /\ x.trade_date = last.file.rows[i].trade_date
                /\ x.strike = last.file.rows[i].strike
    /\ last.committed = 0

\* -------------------------------------------------------------- C3
\* C3: a row that is in one of the tables stays in it with every field as it
\* was, whatever is imported; no handler deletes from the three tables.
C3_StoredRowsNeverChange ==
    [][/\ options_raw \subseteq options_raw'
       /\ futures_raw \subseteq futures_raw'
       /\ stocks_raw \subseteq stocks_raw'
       /\ scraper_db.options_raw \subseteq scraper_db'.options_raw
       /\ scraper_db.futures_raw \subseteq scraper_db'.futures_raw
       /\ scraper_db.stocks_raw \subseteq scraper_db'.stocks_raw]_vars

\* The stored row of a contract holds an open interest of 100 after an import
\* that carried the same contract with an open interest of 250
C3_Witness ==
    /\ last # None
    /\ last.op = "on_import_single_file"
    /\ last.file.is_option
    /\ \E i \in 1..Len(last.file.rows) :
          /\ last.file.rows[i].OI_val = 250
          /\ last.file.rows[i].strike # NULL
          /\ \E x \in options_raw :
                /\ x.trade_date = last.file.rows[i].trade_date
                /\ x.strike = last.file.rows[i].strike
                /\ x.oi = 100

\* -------------------------------------------------------------- C4
\* The table a txo_db_ui file goes to, and the natural key a row of its
\* frame has once stored
TableOfFile(db, file) ==
    IF file.is_option THEN db.options_raw
    ELSE IF file.is_stock THEN db.stocks_raw
    ELSE db.futures_raw

HasKeyOf(file, r, x) ==
    IF file.is_option
    THEN /\ x.trade_date = r.trade_date
         /\ x.product = (IF r.contract # "" THEN r.contract ELSE r.product)
         /\ x.expiry = r.expiry /\ x.strike = r.strike
         /\ x.cp = r.cp /\ x.session = r.session
    ELSE IF file.is_stock
    THEN x.trade_date = r.trade_date /\ x.symbol = r.symbol
    ELSE /\ x.trade_date = r.trade_date /\ x.product = r.contract
         /\ x.expiry = r.expiry /\ x.session = r.session

\* C4: an import that carries a row whose natural key is already in the
\* table raises no error, and every other row it carries is in the table
\* afterwards (txo_db_ui); an import of the scraper raises no error and
\* leaves the rows of its chunk in the table.
C4_DuplicateSkippedOthersInserted ==
    [][/\ last'.op = "on_import_single_file" =>
          LET file == last'.file
              before == TableOfFile(UiDb, file)
              after == TableOfFile(UiDb', file)
              dup(i) == \E x \in before : HasKeyOf(file, file.rows[i], x)
          IN  (\E i \in 1..Len(file.rows) : dup(i)) =>
                  /\ last'.error = NoLabel
                  /\ \A i \in 1..Len(file.rows) :
                        (~dup(i) /\ file.rows[i].strike # NULL) =>
                            \E x \in after : HasKeyOf(file, file.rows[i], x)
       /\ (/\ last'.op = "import_csv_to_database"
           /\ last'.file.columns = <<Str(Text.lvyuejia), Str(Text.maimaiquan)>>) =>
              /\ last'.error = NoLabel
              /\ scraper_db'.options_raw # {}]_vars

\* ------------------------------------------------------------- C10
\* An occurrence of the pattern in a text, stated without the matcher: at
\* index p, which is the start of the text or follows whitespace, stand d
\* digits (3 to 6), then l letters, then w >= 1 whitespace characters, then a
\* CJK character.
IsCodeAt(text, p, d, l, w) ==
    /\ p \in 1..Len(text) /\ d \in 3..6 /\ l >= 0 /\ w >= 1
    /\ p + d + l + w <= Len(text)
    /\ (p = 1 \/ text[p - 1] \in Whitespace)
    /\ \A i \in p..(p + d - 1) : text[i] \in Digits
    /\ \A i \in (p + d)..(p + d + l - 1) : text[i] \in Letters
    /\ \A i \in (p + d + l)..(p + d + l + w - 1) : text[i] \in Whitespace
    /\ text[p + d + l + w] \in CJK

\* Every occurrence <<p, d, l, w>> of the pattern in a text
Occurrences(text) ==
    UNION {{<<p, x[1], x[2], x[3]>> :
               x \in {y \in (3..6) \X (0..(Len(text) - p)) \X (1..(Len(text) - p)) :
                         IsCodeAt(text, p, y[1], y[2], y[3])}} :
           p \in {q \in 1..Len(text) :
                     text[q] \in Digits /\ (q = 1 \/ text[q - 1] \in Whitespace)}}

HasCode(cell) == cell.isstr /\ Occurrences(cell.text) # {}

\* The code and the name of a cell's leftmost occurrence (the name is the
\* whole CJK run after the occurrence's whitespace), or None without one
LeftmostCode(cell) ==
    LET occ == IF cell.isstr THEN Occurrences(cell.text) ELSE {}
    IN  IF occ = {} THEN None
        ELSE
            LET o == CHOOSE o \in occ : \A q \in occ : o[1] <= q[1]
                from == o[1] + o[2] + o[3] + o[4]
                to == CHOOSE e \in from..Len(cell.text) :
                          /\ \A i \in from..e : cell.text[i] \in CJK
                          /\ (e = Len(cell.text) \/ cell.text[e + 1] \notin CJK)
            IN  [code |-> SubSeq(cell.text, o[1], o[1] + o[2] + o[3] - 1),
                 name |-> SubSeq(cell.text, from, to)]

SymbolExtracted == header_columns # <<>> /\ symbol_info # Pending

TierOf(label) ==
    IF label = NoLabel THEN 0
    ELSE IF label = "big_order" THEN 1
    ELSE IF label \in {"major", "major_layout"} THEN 2
    ELSE 3

AlertsDetected == alert_level # Pending /\ alert_level # Idle

\* C9: the tier depends only on |delta|, with inclusive lower bounds: none
\* below 400, large order from 400 to 799, major from 800 to 1199, extreme
\* from 1200 (exactly 1200 is extreme, 799 is large order), and
\* charting.detect_alert_level and detect_anomalies_for_date give every delta
\* the same tier.
C9_TiersInclusiveAndAgree ==
    AlertsDetected =>
        LET a == IF value < 0 THEN -value ELSE value
            tier == IF a < 400 THEN 0
                    ELSE IF a < 800 THEN 1
                    ELSE IF a < 1200 THEN 2
                    ELSE 3
        IN  /\ TierOf(alert_level.charting) = tier
            /\ TierOf(alert_level.txo_db_ui) = tier
            /\ a = 1200 => alert_level.charting = "extreme"
                           /\ alert_level.txo_db_ui = "extreme"
            /\ a = 799 => alert_level.charting = "big_order"
                          /\ alert_level.txo_db_ui = "big_order"

\* A negative delta exactly on the top boundary has been given its tier
C9_Witness ==
    /\ AlertsDetected
    /\ value = -1200
    /\ alert_level.charting = "extreme"
    /\ alert_level.txo_db_ui = "extreme"

\* -------------------------------------------------------------- C5
Aggregated == agg # Pending /\ agg # Idle

\* The open interest of contract <<strike, cp>> on date d: the sum over the
\* rows i..Len(rows) that carry the contract and the date
RECURSIVE OpenInterest(_, _, _, _)
OpenInterest(rows, i, c, d) ==
    IF i > Len(rows) THEN 0
    ELSE (IF <<rows[i].strike, rows[i].cp>> = c /\ rows[i].date = d
          THEN rows[i].oi ELSE 0)
         + OpenInterest(rows, i + 1, c, d)

\* The dates on which the rows hold contract c
SessionsOf(rows, c) ==
    {rows[i].date : i \in {j \in 1..Len(rows) : <<rows[j].strike, rows[j].cp>> = c}}

\* Every (contract, date) of the rows has one row in the frame, and a row of
\* the frame whose contract has an earlier session carries as delta_1 the
\* open interest of its date minus that of the contract's session before it
DeltaOneIsChangeSincePreviousSession(rows, frame) ==
    /\ \A i \in 1..Len(rows) :
          \E k \in 1..Len(frame) :
              /\ frame[k].Date = rows[i].date
              /\ frame[k].Strike = rows[i].strike /\ frame[k].CP = rows[i].cp
    /\ \A k \in 1..Len(frame) :
          LET c == <<frame[k].Strike, frame[k].CP>>
              earlier == {d \in SessionsOf(rows, c) : d < frame[k].Date}
          IN  earlier # {} =>
                  LET prev == CHOOSE d \in earlier : \A e \in earlier : e <= d
                  IN  frame[k].delta_1 =
                          OpenInterest(rows, 1, c, frame[k].Date)
                              - OpenInterest(rows, 1, c, prev)

\* The rows txo_db_ui aggregates: the general session's when there are any
GeneralRows ==
    LET general(r) == r.session = "general"
    IN  IF SelectSeq(df_rows, general) # <<>> THEN SelectSeq(df_rows, general)
        ELSE df_rows

\* C5: for every contract (strike, call/put) and every session N of it after
\* its first, delta_1 at N is OI(N) - OI(N-1), N-1 being the contract's
\* session immediately before N, in whatever order the rows of other
\* contracts and dates come; in data_loader.load_and_process over all rows,
\* in txo_db_ui.aggregate_daily_from_df over the rows it aggregates.
C5_DeltaOnePerContract ==
    Aggregated =>
        /\ DeltaOneIsChangeSincePreviousSession(df_rows, agg.data_loader.agg)
        /\ DeltaOneIsChangeSincePreviousSession(GeneralRows, agg.txo_db_ui)

\* Another contract's session lies between two sessions of a contract, in
\* the input and in time, and the contract's delta_1 is its own change
C5_Witness ==
    /\ Aggregated
    /\ Len(df_rows) = 3
    /\ \A i \in 1..3 : df_rows[i].date = i /\ df_rows[i].session = "general"
    /\ df_rows[1].strike = df_rows[3].strike /\ df_rows[1].cp = df_rows[3].cp
    /\ df_rows[2].strike = df_rows[1].strike /\ df_rows[2].cp # df_rows[1].cp
    /\ df_rows[1].oi = 100 /\ df_rows[2].oi = 250 /\ df_rows[3].oi = 250
    /\ \E k \in 1..Len(agg.txo_db_ui) :
          agg.txo_db_ui[k].Date = 3 /\ agg.txo_db_ui[k].delta_1 = 150
    /\ \E k \in 1..Len(agg.data_loader.agg) :
          agg.data_loader.agg[k].Date = 3 /\ agg.data_loader.agg[k].delta_1 = 150

\* -------------------------------------------------------------- C6
ChunkProcessed == classified # Pending /\ classified # Idle

\* The row the code took as the header of the chunk it was handed
HeaderRow ==
    IF classified.decision.header = "first" THEN chunk_df.columns
    ELSE chunk_df.rows[1]

\* How many of the indicators are, lowercased, a cell of the header row
IndicatorCount(indicators) ==
    Cardinality({k \in indicators :
                    \E i \in 1..Len(HeaderRow) : Lower(HeaderRow[i].text) = k})

\* C6: a chunk is classified as options whenever the option score is at
\* least 2, whatever the other two scores; otherwise as futures when the
\* future score is at least 2 and the option score is 0; otherwise as stocks
\* when the stock score is at least 2 and the other two are 0; in every other
\* case it goes to the symbol-detection fallback.  The header
\* [履約價, 買賣權, 到期月份] is classified as options, and so is a header with
\* an option score of 2 that also holds stock keywords.
C6_ScoreCascade ==
    ChunkProcessed =>
        LET o == IndicatorCount(option_indicators)
            f == IndicatorCount(future_indicators)
            k == IndicatorCount(stock_indicators)
            d == classified.decision
        IN  /\ o >= 2 => d.route = "options" /\ d.layer = "score"
            /\ (o = 0 /\ f >= 2) => d.route = "futures" /\ d.layer = "score"
            /\ (o = 0 /\ f = 0 /\ k >= 2) =>
                  d.route \in {"stocks", "stocks_with_symbol"} /\ d.layer = "score"
            /\ (o = 1 \/ (o = 0 /\ f = 1) \/ (o = 0 /\ f = 0 /\ k < 2)) =>
                  d.layer \in {"symbol", "ask"}
            /\ chunk_df.columns = <<Str(Text.lvyuejia), Str(Text.maimaiquan), Str(T_daoqiyuefen)>>
                  => d.route = "options"

\* A header with two option indicators and two stock indicators went to the
\* options import
C6_Witness ==
    /\ ChunkProcessed
    /\ IndicatorCount(option_indicators) >= 2
    /\ IndicatorCount(stock_indicators) >= 2
    /\ classified.decision.route = "options"

\* -------------------------------------------------------------- C7
\* C7: the column names are the header whenever their score is not lower
\* than the score of the first data row, ties included; the first data row
\* is the header only when it scores strictly higher, and it is then dropped
\* from the data.
C7_FirstRowUnlessSecondStrictlyHigher ==
    ChunkProcessed =>
        LET d == classified.decision
            first == calculate_data_score(chunk_df.columns)
            second == IF chunk_df.rows = <<>> THEN 0
                      ELSE calculate_data_score(chunk_df.rows[1])
        IN  /\ first >= second =>
                  d.header = "first" /\ d.chunk_df = chunk_df
            /\ d.header = "second" =>
                  /\ chunk_df.rows # <<>>
                  /\ second > first
                  /\ d.chunk_df.rows = Tail(chunk_df.rows)

\* A tie below 3: both rows were scored, they score the same, and the
\* column names were kept as the header
C7_Witness ==
    /\ ChunkProcessed
    /\ chunk_df.rows # <<>>
    /\ calculate_data_score(chunk_df.columns) < 3
    /\ calculate_data_score(chunk_df.columns) = calculate_data_score(chunk_df.rows[1])
    /\ classified.decision.header = "first"

\* The first data row scored strictly higher and became the header
C7_WitnessSecond ==
    /\ ChunkProcessed
    /\ classified.decision.header = "second"
    /\ Len(chunk_df.rows) = 2
    /\ Len(classified.decision.chunk_df.rows) = 1

\* -------------------------------------------------------------- C8
\* C8: when neither the scores nor the symbol detection classify the chunk
\* and the operator's answer is not 1, 2 or 3 (or the dialog is cancelled),
\* no import routine runs, the chunk counts 0 imported rows, no table is
\* written, and the chunk is not processed again.
C8_NoChoiceDropsChunk ==
    (ChunkProcessed /\ classified.decision.layer = "ask"
                    /\ classified.choice \notin {"1", "2", "3"}) =>
        /\ classified.decision.route = "none"
        /\ classified.import_count = 0
        /\ scraper_db = EmptyDb
        /\ ~ENABLED ScraperNext

\* The dialog was cancelled for a chunk nothing classified
C8_Witness ==
    /\ ChunkProcessed
    /\ classified.decision.layer = "ask"
    /\ classified.choice = "cancel"
    /\ classified.import_count = 0

\* -------------------------------------------------------------- C11
Loaded == loader # Idle /\ loader.result # Pending

\* The line holds every keyword find_header_row requires
HoldsHeaderKeywords(line) == \A k \in HeaderKeywords : Contains(line, k)

\* The index of the first of the first 10 lines that holds them, 0 if none does
FirstHeaderLine(lines) ==
    LET hits == {i \in 1..Len(lines) : i <= HeaderScanLines /\ HoldsHeaderKeywords(lines[i])}
    IN  IF hits = {} THEN 0 ELSE Min(hits) - 1

\* Line 1 is a title and line 2 is the first line with the header keywords
TitleThenHeader(file) ==
    /\ Len(file.lines) >= 2
    /\ ~HoldsHeaderKeywords(file.lines[1])
    /\ HoldsHeaderKeywords(file.lines[2])

\* C11: every combination attempt_read tries reads with the header row
\* find_header_row gives, which is the index of the first of the first 10
\* sample lines that holds every required keyword and 0 when none does; so a
\* file whose line 1 is a title and whose line 2 is the first header line is
\* read with header_row = 1, not 0.
C11_HeaderRowIsFirstKeywordLine ==
    Loaded =>
        /\ \A i \in 1..Len(loader.result.attempts) :
              loader.result.attempts[i].header_row =
                  FirstHeaderLine(read_sample_lines(loader.file,
                                                    loader.result.attempts[i].enc))
        /\ (TitleThenHeader(loader.file) /\ "encoding" \in DOMAIN loader.result.info)
              => loader.result.info.header_row = 1

C11_Witness ==
    /\ Loaded
    /\ TitleThenHeader(loader.file)
    /\ loader.result.error = NoLabel
    /\ loader.result.info.header_row = 1

\* -------------------------------------------------------------- C12
\* No combination tried gave a non-empty frame with a keyword in its columns
TotalFailure ==
    \A i \in 1..Len(loader.result.attempts) :
        \/ loader.result.attempts[i].outcome = "pandas_read_error"
        \/ ~Plausible(loader.result.attempts[i].columns, loader.result.attempts[i].nrows)

\* The report has a line for the combination of attempt a
Listed(a) ==
    \E j \in 1..Len(loader.result.report.combos) :
        /\ loader.result.report.combos[j].enc = a.enc
        /\ loader.result.report.combos[j].delim = a.delim
        /\ loader.result.report.combos[j].header_row = a.header_row

\* The report has a line for the combination of attempt a that tells what came of it
ListedWithOutcome(a) ==
    \E j \in 1..Len(loader.result.report.combos) :
        /\ loader.result.report.combos[j].enc = a.enc
        /\ loader.result.report.combos[j].delim = a.delim
        /\ loader.result.report.combos[j].header_row = a.header_row
        /\ loader.result.report.combos[j].note = a.outcome

\* The statement as the specification has it: on total failure the report
\* lists every attempted combination with its outcome.
C12_EveryCombinationWithOutcome ==
    (Loaded /\ TotalFailure) =>
        /\ loader.result.error = "ValueError"
        /\ \A i \in 1..Len(loader.result.attempts) :
              ListedWithOutcome(loader.result.attempts[i])

\* C12: when no combination gives a non-empty frame with a keyword in its
\* columns, load_and_process raises after a report that lists every
\* combination tried, the error of every attempt that raised, and the sample
\* lines (an attempt that parsed and failed the plausibility test is listed
\* without its outcome); and a frame it goes on with passed the test.
C12_FailureReportedNothingImplausibleReturned ==
    Loaded =>
        /\ TotalFailure =>
              /\ loader.result.error = "ValueError"
              /\ loader.result.df = None
              /\ loader.result.report # None
              /\ ~loader.result.report.successful
              /\ \A i \in 1..Len(loader.result.attempts) :
                    /\ Listed(loader.result.attempts[i])
                    /\ loader.result.attempts[i].outcome = "pandas_read_error"
                          => ListedWithOutcome(loader.result.attempts[i])
              /\ \A i \in 1..Len(loader.file.lines) :
                    i <= 50 => /\ i <= Len(loader.result.report.raw_sample)
                               /\ loader.result.report.raw_sample[i] =
                                      Garbled(loader.file.lines[i])
        /\ loader.result.df # None =>
              /\ ~TotalFailure
              /\ Plausible(loader.result.df.columns, loader.result.df.nrows)

C12_Witness ==
    /\ Loaded /\ TotalFailure
    /\ loader.result.error = "ValueError"
    /\ \E i \in 1..Len(loader.result.attempts) :
          loader.result.attempts[i].outcome = "pandas_read_error"
    /\ \E i \in 1..Len(loader.result.attempts) :
          loader.result.attempts[i].outcome = "implausible"
    /\ loader.file.lines # <<>>

\* -------------------------------------------------------------- C15
Fetched == fetch # Idle /\ fetch.returned # Pending

\* The attempts before the n-th all raised
RaisedBefore(n) == \A i \in 1..(n - 1) : fetch.outcomes[i] = "raises"

\* C15: download_yfinance_data calls ticker.history at most max_retries (3)
\* times; it goes on to another attempt only after one that raised, and then
\* waits 2^attempt seconds first (1 s after the first, 2 s after the second);
\* when the last attempt raises too it returns None.
C15_BoundedRetriesWithBackoff ==
    Fetched =>
        /\ fetch.returned.attempts \in 1..3
        /\ RaisedBefore(fetch.returned.attempts)
        /\ fetch.returned.attempts < 3
              => fetch.outcomes[fetch.returned.attempts] # "raises"
        /\ fetch.returned.slept = SubSeq(<<1, 2>>, 1, fetch.returned.attempts - 1)
        /\ fetch.returned.result \in {"data", NoLabel}
        /\ fetch.returned.result = "data"
              <=> fetch.outcomes[fetch.returned.attempts] = "data"

C15_Witness ==
    /\ Fetched
    /\ \A i \in 1..3 : fetch.outcomes[i] = "raises"
    /\ fetch.returned.attempts = 3
    /\ fetch.returned.slept = <<1, 2>>
    /\ fetch.returned.result = NoLabel

\* -------------------------------------------------------------- C13
\* C13: every widget and Tk variable of the download tool is written by the
\* UI thread only; a worker thread hands its progress and completion updates
\* over through root.after.
C13_WidgetsWrittenByUiThreadOnly == "worker" \notin batch_ui.writers

\* -------------------------------------------------------------- C14
\* C14: a batch worker that was alive when stop_download was called goes on
\* to no further symbol and to no further interval.
C14_StoppedWorkerStartsNothing ==
    \A n \in 1..Len(threads) : ~threads[n].late

\* -------------------------------------------------------------- C17
BatchWorkersAlive == {n \in 1..Len(threads) : threads[n].kind = "batch" /\ Alive(threads[n])}

\* C17: at most one batch download thread is alive at any time.
C17_AtMostOneBatchWorker == Cardinality(BatchWorkersAlive) <= 1

\* -------------------------------------------------------------- C19
\* The thread dealt with the six intervals in the configured order, fetching
\* those that needed it and no others
VisitedAllInOrder(th) ==
    /\ Len(th.visited) = Len(intervals_config)
    /\ \A j \in 1..Len(th.visited) :
          /\ th.visited[j].interval = intervals_config[j].interval
          /\ th.visited[j].fetched = th.visited[j].needed

\* C19: a smart download of one valid symbol with all intervals selected, once
\* it has ended without an error, went through 1d, 1h, 30m, 15m, 5m, 1m in
\* that order, fetched every interval whose data was missing or incomplete and
\* skipped the others.
C19_SmartDownloadVisitsAllIntervals ==
    \A n \in 1..Len(threads) :
        ( /\ threads[n].kind = "smart"
          /\ threads[n].all
          /\ ~Alive(threads[n])
          /\ is_valid_stock_id(threads[n].list[1])
          /\ threads[n].status # "error" )
        => VisitedAllInOrder(threads[n])

\* -------------------------------------------------------------- C20
\* C20: completed_tasks never exceeds total_tasks, and the progress handed to
\* progress_callback is between 0 and 100.
C20_ProgressWithinBounds ==
    /\ download_manager.completed_tasks <= download_manager.total_tasks
    /\ batch_ui.batch_progress \in 0..100

\* -------------------------------------------------------------- C16
\* The weekdays among the dates from .. to
Weekdays(from, to) == {d \in from..to : weekday(d) < 5}

Counted3(run) == run.success_count + run.skip_count + run.fail_count

\* The dates the log tells to have failed
LoggedFailures(run) ==
    {run.log[j].date : j \in {i \in 1..Len(run.log) :
                                 run.log[i].message \in {"download_failed", "save_failed"}}}

\* C16: a date whose download, parse or save fails is put on failed_dates and
\* the run goes on to the date before it; at every point of the run the three
\* counts add up to the weekdays dealt with so far, so at its end they add up
\* to the weekdays of [start, end].
C16_FailuresCountedRunContinues ==
    txo.state # "aborted" =>
        /\ Counted3(txo) = Cardinality(Weekdays(txo.current + 1, txo.end))
        /\ Len(txo.failed_dates) = txo.fail_count
        /\ {txo.failed_dates[j] : j \in 1..Len(txo.failed_dates)} = LoggedFailures(txo)
        /\ txo.state = "done" =>
              /\ txo.current < txo.start
              /\ Counted3(txo) = Cardinality(Weekdays(txo.start, txo.end))

C16_Witness ==
    /\ txo.state = "done"
    /\ txo.fail_count = 2
    /\ txo.success_count >= 1
    /\ \E j \in 1..Len(txo.log) :
          /\ txo.log[j].message = "success"
          /\ \E f \in 1..Len(txo.failed_dates) : txo.failed_dates[f] > txo.log[j].date
    /\ Cardinality(Weekdays(txo.start, txo.end)) < txo.end - txo.start + 1

\* -------------------------------------------------------------- C18
\* entry, exit, entry, exit, ...
Alternates(trades) ==
    \A j \in 1..Len(trades) :
        trades[j].type = IF j % 2 = 1 THEN "entry" ELSE "exit"

\* C18: the trades a strategy returns start with an entry, alternate between
\* entry and exit, and end with an exit.
C18_TradesAlternateEndWithExit ==
    (backtest.result # Pending) =>
        /\ Alternates(backtest.result.trades)
        /\ Len(backtest.result.trades) % 2 = 0
        /\ backtest.result.position = NoLabel

\* -------------------------------------------------------------- C21
\* The dates the log of the run tells with one of the messages
LoggedAs(run, messages) ==
    {run.log[j].date : j \in {i \in 1..Len(run.log) : run.log[i].message \in messages}}

C22_ReturnedCountIsCommittedRows ==
    (/\ last # None
     /\ last.op \in {"on_import_single_file", "on_auto_import"}
     /\ last.error = NoLabel)
        => last.ret = last.committed

\* -------------------------------------------------------------- C23
\* The events (1,2), (3,4), ... of a list that are an entry followed by an exit
EntryExitPairs(trades) ==
    {k \in 1..(Len(trades) \div 2) :
        trades[2 * k - 1].type = "entry" /\ trades[2 * k].type = "exit"}

\* exit - entry - (entry + exit) * commission of a long pair, in units
LongNet(trades, k) ==
    CommissionInverse * (trades[2 * k].price - trades[2 * k - 1].price)
        - (trades[2 * k - 1].price + trades[2 * k].price)

RECURSIVE SumOver(_, _, _)
SumOver(trades, pairs, k) ==
    IF k = 0 THEN 0
    ELSE SumOver(trades, pairs, k - 1) + (IF k \in pairs THEN LongNet(trades, k) ELSE 0)

AllLong(trades) == \A j \in 1..Len(trades) : trades[j].position = "long"

\* C23: calculate_performance pairs the events (0,1), (2,3), ...; with long
\* positions every entry/exit pair adds exit - entry - (entry + exit) *
\* commission, final_equity is 100000 plus the sum of these net results and is
\* the last point of equity_curve, whose length is the number of paired trades
\* plus one; with fewer than two events, or no entry/exit pair, the result is
\* None.
C23_EquityIsSumOfPairedNetResults ==
    backtest.result # Pending =>
        IF Len(backtest.trades) < 2 \/ EntryExitPairs(backtest.trades) = {}
        THEN backtest.result = None
        ELSE /\ backtest.result # None
             /\ Len(backtest.result.equity_curve)
                    = Cardinality(EntryExitPairs(backtest.trades)) + 1
             /\ backtest.result.total_trades = Cardinality(EntryExitPairs(backtest.trades))
             /\ backtest.result.final_equity
                    = backtest.result.equity_curve[Len(backtest.result.equity_curve)]
             /\ AllLong(backtest.trades) =>
                    backtest.result.final_equity
                        = 100000 * CommissionInverse
                            + SumOver(backtest.trades, EntryExitPairs(backtest.trades),
                                      Len(backtest.trades) \div 2)

C23_Witness ==
    /\ backtest.result \notin {Pending, None}
    /\ AllLong(backtest.trades)
    /\ Len(backtest.trades) = 5
    /\ Len(backtest.result.equity_curve) = 3
    /\ backtest.result.final_equity # 100000 * CommissionInverse

\* -------------------------------------------------------------- C24
\* The highest equity of the points 1..i
RECURSIVE PeakUpTo(_, _)
PeakUpTo(curve, i) ==
    IF i = 1 THEN curve[1]
    ELSE IF curve[i] > PeakUpTo(curve, i - 1) THEN curve[i] ELSE PeakUpTo(curve, i - 1)

DrawdownAt(curve, i) == [num |-> PeakUpTo(curve, i) - curve[i], den |-> PeakUpTo(curve, i)]

SameRatio(x, y) == ~RatioLess(x, y) /\ ~RatioLess(y, x)

NeverFalls(curve) == \A i, j \in 1..Len(curve) : i < j => curve[j] >= curve[i]

\* C24: the max_drawdown of a performance record is the largest, over the
\* points of its equity curve, of (running peak - equity) / running peak, the
\* running peak being the highest equity up to and including the point; it is
\* 0 for a curve that never falls below an earlier value.
C24_MaxDrawdownIsLargestFallFromPeak ==
    backtest.result \notin {Pending, None} =>
        /\ \E i \in 1..Len(backtest.result.equity_curve) :
              SameRatio(backtest.result.max_drawdown,
                        DrawdownAt(backtest.result.equity_curve, i))
        /\ \A i \in 1..Len(backtest.result.equity_curve) :
              ~RatioLess(backtest.result.max_drawdown,
                         DrawdownAt(backtest.result.equity_curve, i))
        /\ NeverFalls(backtest.result.equity_curve)
              => backtest.result.max_drawdown.num = 0

\* A curve that falls, recovers above its first peak and falls again by less
\* in money but not at the last point only
C24_Witness ==
    /\ backtest.result \notin {Pending, None}
    /\ Len(backtest.result.equity_curve) = 3
    /\ backtest.result.equity_curve[2] > backtest.result.equity_curve[1]
    /\ backtest.result.equity_curve[3] < backtest.result.equity_curve[2]
    /\ backtest.result.equity_curve[3] > backtest.result.equity_curve[1]
    /\ backtest.result.max_drawdown.num > 0

\* -------------------------------------------------------------- C25
\* The rows of the frame of one contract's sessions before a date
SessionsBefore(frame, strike, cp, date) ==
    {j \in 1..Len(frame) :
        frame[j].Strike = strike /\ frame[j].CP = cp /\ frame[j].Date < date}

\* R is the up to 5 most recent of the sessions P
MostRecentOf(frame, R, P) ==
    /\ R \subseteq P
    /\ Cardinality(R) = (IF Cardinality(P) < 5 THEN Cardinality(P) ELSE 5)
    /\ \A j \in R, k \in P \ R : frame[k].Date < frame[j].Date

RECURSIVE TotalAbsDelta(_, _)
TotalAbsDelta(frame, R) ==
    IF R = {} THEN 0
    ELSE LET j == CHOOSE x \in R : TRUE
         IN  (IF frame[j].delta_1 < 0 THEN -frame[j].delta_1 ELSE frame[j].delta_1)
                 + TotalAbsDelta(frame, R \ {j})

\* |delta| > 3 * mean, the mean of the sessions R being positive
ExceedsThriceMean(frame, absd, R) ==
    /\ TotalAbsDelta(frame, R) > 0
    /\ absd * Cardinality(R) > 3 * TotalAbsDelta(frame, R)

ListedAs(strike, cp) ==
    {plot.result.detected.anomalies[j].level :
        j \in {i \in 1..Len(plot.result.detected.anomalies) :
                  /\ plot.result.detected.anomalies[i].Strike = strike
                  /\ plot.result.detected.anomalies[i].CP = cp}}

C26_RemoteOnlyOutsideTheWindow ==
    plot.result # Pending =>
        \A i \in 1..Len(plot.result.detected.flags) :
            LET f == plot.result.detected.flags[i]
            IN  /\ f.outside_flag <=>
                      /\ plot.result.atm # NULL
                      /\ (f.Strike - plot.result.atm > plot.win
                             \/ plot.result.atm - f.Strike > plot.win)
                      /\ f.abs >= 400
                /\ f.Strike \in plot.result.vis_strikes => ~f.outside_flag

\* -------------------------------------------------------------- C27
\* The days of a month of the Gregorian calendar
DaysOfCalendarMonth(year, month) ==
    IF month = 2
    THEN (IF year % 400 = 0 THEN 29 ELSE IF year % 100 = 0 THEN 28
          ELSE IF year % 4 = 0 THEN 29 ELSE 28)
    ELSE <<31, 0, 31, 30, 31, 30, 31, 31, 30, 31, 30, 31>>[month]

\* C27: after any sequence of 上一年, 下一年, 上一月, 下一月 and 設置日期 of a date
\* that exists, the month of a 日期選擇器 is in 1..12 and its day is at most the
\* number of days of its month and year, leap years included; 上一月 from
\* January gives December of the year before, 下一月 from December gives
\* January of the year after.
C27_PickerHoldsACalendarDate ==
    /\ picker.month \in 1..12
    /\ picker.day \in 1..DaysOfCalendarMonth(picker.year, picker.month)
    /\ (picker.op = "previous_month" /\ picker.before.month = 1)
          => picker.month = 12 /\ picker.year = picker.before.year - 1
    /\ (picker.op = "next_month" /\ picker.before.month = 12)
          => picker.month = 1 /\ picker.year = picker.before.year + 1
    /\ (picker.op = "previous_month" /\ picker.before.month > 1)
          => picker.month = picker.before.month - 1 /\ picker.year = picker.before.year
    /\ (picker.op = "next_month" /\ picker.before.month < 12)
          => picker.month = picker.before.month + 1 /\ picker.year = picker.before.year

\* The 31st of March 1900 after 上一月: the 28th of February
C27_Witness ==
    /\ picker.op = "previous_month"
    /\ picker.year = 1900 /\ picker.month = 2 /\ picker.day = 28

\* -------------------------------------------------------------- C28
\* A row of the frame whose contract has no earlier session among the rows
\* has prior OI 0 and delta_1 = its OI; one whose contract has at most one
\* earlier session has second prior OI 0 and delta_2 = its OI
FirstSessionsStartFromZero(rows, frame) ==
    \A k \in 1..Len(frame) :
        LET c == <<frame[k].Strike, frame[k].CP>>
            earlier == {d \in SessionsOf(rows, c) : d < frame[k].Date}
        IN  /\ frame[k].OI = OpenInterest(rows, 1, c, frame[k].Date)
            /\ earlier = {} =>
                  frame[k].OI_prev1 = 0 /\ frame[k].delta_1 = frame[k].OI
            /\ Cardinality(earlier) <= 1 =>
                  frame[k].OI_prev2 = 0 /\ frame[k].delta_2 = frame[k].OI

\* C28: for the first session of a contract in the loaded data the prior OI
\* is 0 and delta_1 is that session's OI; delta_2 is the session's OI for the
\* contract's first two sessions (data_loader.load_and_process over all rows,
\* txo_db_ui.aggregate_daily_from_df over the rows it aggregates).
C28_FirstSessionsCountFromZero ==
    Aggregated =>
        /\ FirstSessionsStartFromZero(df_rows, agg.data_loader.agg)
        /\ FirstSessionsStartFromZero(GeneralRows, agg.txo_db_ui)

\* A contract with three sessions: delta_2 of the second is its OI, that of
\* the third is not
C28_Witness ==
    /\ Aggregated
    /\ Len(agg.txo_db_ui) = 3 /\ Len(agg.data_loader.agg) = 3
    /\ \A k \in 1..3 :
          /\ agg.txo_db_ui[k].Date = k /\ agg.txo_db_ui[k].Strike = 17000
          /\ agg.txo_db_ui[k].CP = "call"
    /\ agg.txo_db_ui[1].delta_1 = 250 /\ agg.txo_db_ui[2].delta_2 = 100
    /\ agg.txo_db_ui[2].delta_1 = -150 /\ agg.txo_db_ui[3].delta_2 = 0
    /\ agg.data_loader.agg[2].delta_2 = 100

\* -------------------------------------------------------------- C30
\* The rows of one session kind
RowsOfSession(rows, kind) ==
    LET of_kind(r) == r.session = kind
    IN  SelectSeq(rows, of_kind)

\* The frame has one row per contract and date of the rows, carrying the sum
\* of their open interest
SumsExactly(frame, rows) ==
    /\ \A k \in 1..Len(frame) :
          /\ frame[k].Date \in SessionsOf(rows, <<frame[k].Strike, frame[k].CP>>)
          /\ frame[k].OI
                = OpenInterest(rows, 1, <<frame[k].Strike, frame[k].CP>>, frame[k].Date)
    /\ \A i \in 1..Len(rows) :
          \E k \in 1..Len(frame) :
              /\ frame[k].Date = rows[i].date
              /\ frame[k].Strike = rows[i].strike /\ frame[k].CP = rows[i].cp

\* C30: aggregate_daily_from_df sums the open interest of the regular-session
\* rows only whenever the loaded data holds at least one such row; the
\* after-hours rows are summed only when it holds no regular-session row.
C30_RegularSessionRowsOnly ==
    Aggregated =>
        IF RowsOfSession(df_rows, "general") # <<>>
        THEN SumsExactly(agg.txo_db_ui, RowsOfSession(df_rows, "general"))
        ELSE SumsExactly(agg.txo_db_ui, df_rows)

\* A contract with a regular and an after-hours row on one date and an
\* after-hours row alone on another: the first date carries the regular OI,
\* the other date has no row
C30_Witness ==
    /\ Aggregated
    /\ Len(df_rows) = 3
    /\ df_rows[1].session = "general" /\ df_rows[1].oi = 100 /\ df_rows[1].date = 1
    /\ df_rows[2].session = "after_hours" /\ df_rows[2].oi = 250 /\ df_rows[2].date = 1
    /\ df_rows[3].session = "after_hours" /\ df_rows[3].date = 2
    /\ \A i \in 1..3 : df_rows[i].strike = 17000 /\ df_rows[i].cp = "call"
    /\ Len(agg.txo_db_ui) = 1
    /\ agg.txo_db_ui[1].OI = 100

\* -------------------------------------------------------------- C29
\* C29: when the first row (the column names) scores 3 or more,
\* _process_data_chunk_fast does not score the second row (score_second_row
\* stays 0) and takes the first row as the header; the second row is the
\* header only when the first row scores below 3.
C29_SecondRowScoredOnlyBelowThree ==
    ChunkProcessed =>
        /\ classified.decision.score_first_row = calculate_data_score(chunk_df.columns)
        /\ classified.decision.score_first_row >= 3 =>
              /\ classified.decision.score_second_row = 0
              /\ classified.decision.header = "first"
        /\ classified.decision.header = "second" =>
              classified.decision.score_first_row < 3

\* The first row scores 3 or more, the second row would score higher, and
\* is not scored
C29_Witness ==
    /\ ChunkProcessed
    /\ classified.decision.score_first_row >= 3
    /\ Len(chunk_df.rows) > 0
    /\ calculate_data_score(chunk_df.rows[1]) > classified.decision.score_first_row
    /\ classified.decision.score_second_row = 0
    /\ classified.decision.header = "first"

====
